---- MODULE Spec2Model ----
(***************************************************************************)
(* Model of chatgpt_to_notion.py: the incremental ingestion run (state.json *)
(* checkpoint, day bucketing, batched summarisation, daily publish) and the *)
(* weekly report step that follows it in main().                            *)
(*                                                                          *)
(* Scales.  Timestamps are counted in units of three hours, so a day is 8   *)
(* units and the JST offset (+9h) is 3 units.  Dates are day numbers, day 0 *)
(* is a Monday, so date.weekday() is d % 7.  Texts are sequences of lines   *)
(* (the pieces str.split('\n') returns); a line is a record holding its     *)
(* length n, the id of the message it was made from (0 for fixed text) and  *)
(* whether it is the whole line (FALSE once the per-day cap has cut it).    *)
(* The two size limits (16000 and 120000 in the source) are scaled down.    *)
(***************************************************************************)
EXTENDS Integers, Sequences, FiniteSets, TLC

\* Python's None, a value no timestamp and no date takes
None == 0 - 1000

Max(S) == CHOOSE x \in S : \A y \in S : y <= x
Min(S) == CHOOSE x \in S : \A y \in S : x <= y

\* ---- bounds of the model ------------------------------------------------
MaxMsgs == 2                 \* messages the export may hold
max_chars == 40              \* per-day cap (16000, scaled)
MAX_CHARS_PER_REQUEST == 60  \* request threshold (120000, scaled)
DocPieces == 2               \* writes json.dump makes to put a document in a file

ClockDays == {4, 5}          \* the days runs are made on: a Friday, a Saturday
Recs == {1, 2, 3}            \* conversation records of the export, in file order
TsVals == {13, 21, 30}       \* message create_time values (JST days 2, 3, 4)
Floors == {2, 3}             \* values of --from-date
LineLens == {20}             \* len of "[role] title|text" of a message
Seeds == {0, 1}              \* string hash seeds of a Python process
DayRange == 0..Max(ClockDays)

\* conv.get("id") or conv.get("conversation_id") or "(unknown)":
\* record 1 carries an id, records 2 and 3 carry none.
ConvIdOf(rec) == IF rec = 1 THEN "c1" ELSE "(unknown)"
Convs == {ConvIdOf(r) : r \in Recs}


RECURSIVE SumN(_)
SumN(s) == IF s = <<>> THEN 0 ELSE Head(s).n + SumN(Tail(s))

\* ---- texts ----------------------------------------------------------------
Line(n, mid) == [n |-> n, mid |-> mid, whole |-> TRUE]
Blank == Line(0, 0)
\* len(text) of a text held as its lines: the lines and the "\n" between them
TextLen(t) == SumN(t) + Len(t) - 1
\* a + b on strings
Cat(a, b) ==
    LET la == a[Len(a)]
        fb == b[1]
        mid == IF la.n = 0 THEN fb
               ELSE IF fb.n = 0 THEN la
               ELSE [n |-> la.n + fb.n, mid |-> la.mid, whole |-> FALSE]
    IN SubSeq(a, 1, Len(a) - 1) \o <<mid>> \o SubSeq(b, 2, Len(b))
\* text[:k]; a line of which no character is kept is an empty line
RECURSIVE Prefix(_, _)
Prefix(t, k) ==
    IF Len(t) = 1 \/ Head(t).n >= k
    THEN <<IF Head(t).n <= k THEN Head(t)
           ELSE IF k = 0 THEN Blank
           ELSE [n |-> k, mid |-> Head(t).mid, whole |-> FALSE]>>
    ELSE <<Head(t)>> \o Prefix(Tail(t), k - Head(t).n - 1)

VARIABLES
    export,          \* conversations.json: the set of message records
    floor,           \* --from-date
    floorChanged,    \* history: the floor differed between two runs
    today,           \* jst_today()
    disk,            \* state.json
    weeklyDisk,      \* weekly_report_config.json: last_weekly_report_date
    pc,              \* position of main()
    exitCode,        \* how the last run ended: "none", "ok", "fatal"
    state,           \* main()'s state dict
    daily_raw,       \* day -> text
    progress,        \* conv_id -> (new_seen, max_ts)
    chunks,          \* the texts to summarise, in call order
    chunkIdx,
    daily_summaries, \* day -> "missing" | "empty" | "text"
    dayIdx,
    successful_days,
    failed_days,
    registration_date,
    callLog,         \* history: the external calls of the run, in order
    ckptSaved,       \* history: save_state ran in this run
    weeklySaved,     \* history: save_last_weekly_report_date ran in this run
    runStart,        \* history: disk, weeklyDisk and sinceCommit at load_state
    sinceCommit,     \* history: "none" before the first commit, "same" while the
                     \* export and the floor are those of the last commit, else "changed"
    commitCount,     \* history: mid -> number of committed RunProgress holding it
    bucketed,        \* history: ids of the messages build_daily_raw put in a bucket
    filt,            \* one application of the eligibility filter (FilterSpec)
    hashSeed,        \* the process's string hash seed (PYTHONHASHSEED)
    retry,           \* build_daily_raw of an aborted run and of its retry (RetrySpec)
    seg,             \* one application of the segmenter (SegmentSpec)
    par,             \* one application of the response parser (ParseSpec)
    ds,              \* daily_chatgpt_summary.main(): its position and its history
    fs,              \* a file being saved and what a reader gets of it (SaveSpec)
    capp,            \* one application of the per-day cap (CapSpec)
    rd,              \* one application of markdown_to_notion_blocks (RenderSpec)
    ord              \* the message loop on a record read in two orders (OrderSpec)

vars == <<export, floor, floorChanged, today, disk, weeklyDisk, pc, exitCode,
          state, daily_raw, progress, chunks, chunkIdx, daily_summaries, dayIdx,
          successful_days, failed_days, registration_date, callLog, ckptSaved,
          weeklySaved, runStart, sinceCommit, commitCount, bucketed, filt,
          hashSeed, retry, seg, par, ds, fs, capp, rd, ord>>

probeVars == <<retry, seg, par>>
otherVars == <<ds, fs, capp, rd, ord>>
envVars == <<export, floor, floorChanged, today, filt, hashSeed, probeVars, otherVars>>
runVars == <<state, daily_raw, progress, chunks, chunkIdx, daily_summaries,
             dayIdx, successful_days, failed_days, registration_date>>
histVars == <<callLog, ckptSaved, weeklySaved, runStart, sinceCommit, commitCount, bucketed>>

\* ---- state.json -----------------------------------------------------------
\* load_state with no file: {"version": 1, "conv_hwm": {}, "seen": {}}.
\* conv_hwm is only read with .get(conv_id, -1) and seen with .get(conv_id, []),
\* so a missing key is held as -1 and as the empty list.
EmptyState == [conv_hwm |-> [c \in Convs |-> -1], seen |-> [c \in Convs |-> <<>>]]
load_state == disk

Range(s) == {s[i] : i \in DOMAIN s}

RECURSIVE SetToSeq(_)
SetToSeq(S) == IF S = {} THEN <<>> ELSE <<Min(S)>> \o SetToSeq(S \ {Min(S)})

\* ---- iter_messages --------------------------------------------------------
\* The messages of one record in source order (the order of their ids here),
\* without those that lack a role or a text.
\* A message of the mapping form has msg["id"] or "mapping-<node id>", one of the
\* messages form has m["id"] or f"legacy-{hash((role,text,ts))}" (line 133): the
\* hash of a tuple of strings depends on the seed of the process.
LegacyId(mid, seed) == 100 + 10 * seed + mid
MidOf(m, seed) == IF m.legacy THEN LegacyId(m.mid, seed) ELSE m.mid
iter_messages(exp, rec) ==
    LET ms == {m \in exp : m.rec = rec /\ m.role # "" }
        ids == SetToSeq({m.mid : m \in ms})
    IN [i \in 1..Len(ids) |->
          LET m == CHOOSE x \in ms : x.mid = ids[i]
          IN [m EXCEPT !.mid = MidOf(m, hashSeed)]]

\* ---- ts_to_day ------------------------------------------------------------
ts_to_day(ts, from_date) ==
    IF ts = None THEN today
    ELSE LET date_obj == (ts + 3) \div 8
         IN IF date_obj >= from_date THEN date_obj ELSE None

\* ---- build_daily_raw ------------------------------------------------------
\* the two skips of the message loop (lines 180 and 184)
\* variant: the comparison with the high-water mark is strict
SkipByTs_Strict(m, last_ts) == m.ts # None /\ m.ts < last_ts
SkipByTs(m, last_ts) == m.ts # None /\ m.ts <= last_ts
\* variant: the seen list is not consulted
SkipBySeen_Never(m, seen_set) == FALSE
\* variant: the seen list is consulted for messages without a timestamp only
SkipBySeen_Untimed(m, seen_set) == m.ts = None /\ m.mid \in seen_set
SkipBySeen(m, seen_set) == m.mid \in seen_set
Eligible(m, last_ts, seen_set) == ~SkipByTs(m, last_ts) /\ ~SkipBySeen(m, seen_set)

\* variant: a message dated before the floor is kept
FloorDrops_Never(day) == FALSE
\* lines 186-189: ts_to_day gave None, the message is dated before the floor
FloorDrops(day) == day = None

\* variant: the line of a message takes the place of the lines of its day
AddLine_Replace(bucket, m) == <<m>>
\* line 190: buckets[day].append(...)
AddLine(bucket, m) == Append(bucket, m)

\* variant: the timestamp of a message is compared with the running maximum
RECURSIVE MsgLoop_Running(_, _, _, _, _)
MsgLoop_Running(msgs, acc, last_ts, seen_set, from_date) ==
    IF msgs = <<>> THEN acc
    ELSE LET m == Head(msgs)
             day == ts_to_day(m.ts, from_date)
             next ==
               IF ~Eligible(m, acc.max_ts, seen_set) \/ FloorDrops(day) THEN acc
               ELSE [buckets |-> [acc.buckets EXCEPT ![day] = AddLine(@, m)],
                     new_seen |-> acc.new_seen \cup {m.mid},
                     max_ts |-> IF m.ts # None /\ m.ts > acc.max_ts
                                THEN m.ts ELSE acc.max_ts]
         IN MsgLoop_Running(Tail(msgs), next, last_ts, seen_set, from_date)
\* One pass of the inner loop over the messages of a record.
\* acc = [buckets, new_seen, max_ts]
RECURSIVE MsgLoop(_, _, _, _, _)
MsgLoop(msgs, acc, last_ts, seen_set, from_date) ==
    IF msgs = <<>> THEN acc
    ELSE LET m == Head(msgs)
             day == ts_to_day(m.ts, from_date)
             next ==
               IF ~Eligible(m, last_ts, seen_set) \/ FloorDrops(day) THEN acc
               ELSE [buckets |-> [acc.buckets EXCEPT ![day] = AddLine(@, m)],
                     new_seen |-> acc.new_seen \cup {m.mid},
                     max_ts |-> IF m.ts # None /\ m.ts > acc.max_ts
                                THEN m.ts ELSE acc.max_ts]
         IN MsgLoop(Tail(msgs), next, last_ts, seen_set, from_date)

NoProgress == [c \in Convs |-> [new_seen |-> {}, max_ts |-> -1]]

\* The outer loop over the records.  acc = [buckets, progress]
RECURSIVE ConvLoop(_, _, _, _, _)
ConvLoop(recs, acc, exp, st, from_date) ==
    IF recs = <<>> THEN acc
    ELSE LET conv_id == ConvIdOf(Head(recs))
             last_ts == st.conv_hwm[conv_id]
             seen_set == Range(st.seen[conv_id])
             r == MsgLoop(iter_messages(exp, Head(recs)),
                          [buckets |-> acc.buckets, new_seen |-> {}, max_ts |-> last_ts],
                          last_ts, seen_set, from_date)
             next == [buckets |-> r.buckets,
                      progress |-> IF r.new_seen # {}
                                   THEN [acc.progress EXCEPT ![conv_id] =
                                           [new_seen |-> r.new_seen, max_ts |-> r.max_ts]]
                                   ELSE acc.progress]
         IN ConvLoop(Tail(recs), next, exp, st, from_date)

\* "\n- " + "\n- ".join(lines)
Joined(lines) == <<Blank>> \o [i \in 1..Len(lines) |-> Line(2 + lines[i].n, lines[i].mid)]
\* "\n…（長文のため途中まで）"
TruncSuffix == <<Blank, Line(12, 0)>>
\* variant: a text of exactly cap characters is cut as well
CapText_AtCap(joined, cap) ==
    IF TextLen(joined) >= cap THEN Cat(Prefix(joined, cap), TruncSuffix) ELSE joined
\* lines 202-204
CapText(joined, cap) ==
    IF TextLen(joined) > cap THEN Cat(Prefix(joined, cap), TruncSuffix) ELSE joined

build_daily_raw(exp, st, cap, from_date) ==
    LET r == ConvLoop(SetToSeq(Recs),
                      [buckets |-> [d \in DayRange |-> <<>>], progress |-> NoProgress],
                      exp, st, from_date)
        days == {d \in DayRange : r.buckets[d] # <<>>}
    IN [daily |-> [d \in days |-> CapText(Joined(r.buckets[d]), cap)],
        progress |-> r.progress,
        bucketed |-> UNION {{m.mid : m \in Range(r.buckets[d])} : d \in days}]

\* ---- main(): the requests to the summariser (lines 896-923) -----------------
\* "\n## {day}\n" and the "\n" that closes a day
DayHeader == <<Blank, Line(13, 0), Blank>>
Newline == <<Blank, Blank>>
\* variant: the days are taken in descending order
RECURSIVE SetToSeqDesc(_)
SetToSeqDesc(S) == IF S = {} THEN <<>> ELSE <<Max(S)>> \o SetToSeqDesc(S \ {Max(S)})
SortedDays_Desc(daily) == SetToSeqDesc(DOMAIN daily)
\* sorted(daily_raw.keys())
SortedDays(daily) == SetToSeq(DOMAIN daily)

RECURSIVE CombineDays(_, _, _)
CombineDays(days, daily, text) ==
    IF days = <<>> THEN text
    ELSE CombineDays(Tail(days), daily,
                     Cat(Cat(Cat(text, DayHeader), daily[Head(days)]), Newline))
combined_text(daily) == CombineDays(SortedDays(daily), daily, <<Blank>>)

\* str.strip() of a text whose non-blank lines carry no outer white space;
\* the empty string is the empty sequence here.
RECURSIVE StripLeft(_)
StripLeft(t) == IF t = <<>> THEN <<>>
                ELSE IF Head(t).n = 0 THEN StripLeft(Tail(t)) ELSE t
RECURSIVE StripRight(_)
StripRight(t) == IF t = <<>> THEN <<>>
                 ELSE IF t[Len(t)].n = 0 THEN StripRight(SubSeq(t, 1, Len(t) - 1)) ELSE t
Strip(t) == StripRight(StripLeft(t))

\* The chunk loop.  current_chunk is held as the lines added to it, each of
\* which is followed by "\n" in the string.
\* variant: the "\n" after each line is not counted
ChunkStrLen_NoNewlines(cur) == SumN(cur)
ChunkStrLen(cur) == SumN(cur) + Len(cur)
\* variant: the chunk is never closed
Overflows_Never(cur, line, limit) == FALSE
\* line 916: len(current_chunk + line) > MAX_CHARS_PER_REQUEST and current_chunk
Overflows(cur, line, limit) == ChunkStrLen(cur) + line.n > limit /\ cur # <<>>
\* variant: the line that did not fit is left out of the next chunk
NewChunk_Empty(line) == <<>>
\* line 918: current_chunk = line + '\n'
NewChunk(line) == <<line>>
RECURSIVE ChunkLoop(_, _, _, _)
ChunkLoop(lines, current_chunk, acc, limit) ==
    IF lines = <<>>
    THEN IF Strip(current_chunk) # <<>> THEN Append(acc, Strip(current_chunk)) ELSE acc
    ELSE LET line == Head(lines)
         IN IF Overflows(current_chunk, line, limit)
            THEN ChunkLoop(Tail(lines), NewChunk(line),
                           Append(acc, Strip(current_chunk)), limit)
            ELSE ChunkLoop(Tail(lines), Append(current_chunk, line), acc, limit)

\* variant: a text that fits goes through the chunk loop as well
SingleRequest_Chunked(text) == ChunkLoop(text, <<>>, <<>>, MAX_CHARS_PER_REQUEST)
\* line 938: summarize(combined_text, ...)
SingleRequest(text) == <<text>>

\* the texts passed to summarize(), in call order
Requests(daily) ==
    LET text == combined_text(daily)
    IN IF Strip(text) = <<>> THEN <<>>
       ELSE IF TextLen(text) > MAX_CHARS_PER_REQUEST
            THEN ChunkLoop(text, <<>>, <<>>, MAX_CHARS_PER_REQUEST)
            ELSE SingleRequest(text)

NoFilter == [ts |-> None, last_ts |-> -1, mid |-> 0, seen_set |-> {}, out |-> "unset"]
\* the same for the other functions that are applied on their own
NoRetry == [stage |-> "unset"]
NoSeg == [stage |-> "unset"]
NoPar == [stage |-> "unset"]
NoFs == [stage |-> "unset"]
NoCap == [stage |-> "unset"]
NoRd == [stage |-> "unset"]
NoOrd == [stage |-> "unset"]
\* daily_chatgpt_summary.main() is not running
NoDs == [pc |-> "idle", exit |-> "none", calls |-> <<>>, start |-> None, saved |-> FALSE]
OthersUnset == ds = NoDs /\ fs = NoFs /\ capp = NoCap /\ rd = NoRd /\ ord = NoOrd

\* ---- Init and the environment -------------------------------------------------
\* What is left of a run once its process is gone: nothing but the files.
NoRun ==
    /\ pc' = "idle"
    /\ exitCode' = "none"
    /\ state' = EmptyState
    /\ daily_raw' = <<>>
    /\ progress' = NoProgress
    /\ chunks' = <<>>
    /\ chunkIdx' = 1
    /\ daily_summaries' = <<>>
    /\ dayIdx' = 1
    /\ successful_days' = <<>>
    /\ failed_days' = <<>>
    /\ registration_date' = None
    /\ callLog' = <<>>
    /\ ckptSaved' = FALSE
    /\ weeklySaved' = FALSE
    /\ bucketed' = {}
    /\ runStart' = [disk |-> disk, weeklyDisk |-> weeklyDisk, sinceCommit |-> sinceCommit']

InitFilesAt(days, dates) ==
    /\ export = {}
    /\ floor = Max(Floors)
    /\ floorChanged = FALSE
    /\ today \in days
    /\ disk = EmptyState
    /\ weeklyDisk \in dates
    /\ pc = "idle"
    /\ exitCode = "none"
    /\ state = EmptyState
    /\ daily_raw = <<>>
    /\ progress = NoProgress
    /\ chunks = <<>>
    /\ chunkIdx = 1
    /\ daily_summaries = <<>>
    /\ dayIdx = 1
    /\ successful_days = <<>>
    /\ failed_days = <<>>
    /\ registration_date = None
    /\ callLog = <<>>
    /\ ckptSaved = FALSE
    /\ weeklySaved = FALSE
    /\ runStart = [disk |-> EmptyState, weeklyDisk |-> weeklyDisk, sinceCommit |-> "none"]
    /\ sinceCommit = "none"
    /\ commitCount = [i \in {} |-> 0]
    /\ bucketed = {}
    /\ hashSeed = Min(Seeds)

\* no state.json and no weekly_report_config.json yet
InitFiles == InitFilesAt(ClockDays, {None})

Init ==
    /\ InitFiles
    /\ OthersUnset
    /\ filt = NoFilter
    /\ retry = NoRetry
    /\ seg = NoSeg
    /\ par = NoPar

\* A message a new export may hold.  A message without a role is skipped by
\* iter_messages whatever else it holds, so one such message stands for all.
NewMessages(mid) ==
    {[rec |-> r, mid |-> mid, role |-> "user", ts |-> t, n |-> l, legacy |-> FALSE] :
        r \in Recs, t \in TsVals \cup {None}, l \in LineLens}
    \cup {[rec |-> Min(Recs), mid |-> mid, role |-> "", ts |-> None, n |-> Min(LineLens),
           legacy |-> FALSE]}

\* The export grows between two runs.  The records without an id are
\* interchangeable, so they are filled in the order of their numbers.
AddMessage ==
    /\ pc = "idle"
    /\ Cardinality(export) < MaxMsgs
    /\ \E m \in NewMessages(Cardinality(export) + 1) :
          /\ m.rec = Max(Recs) => \E x \in export : x.rec = Max(Recs) - 1
          /\ export' = export \cup {m}
    /\ sinceCommit' = IF sinceCommit = "same" THEN "changed" ELSE sinceCommit
    /\ NoRun
    /\ UNCHANGED <<floor, floorChanged, today, filt, disk, weeklyDisk, commitCount,
                   hashSeed, probeVars, otherVars>>

\* The operator passes another --from-date to the next run.
ChangeFloor ==
    /\ pc = "idle"
    /\ \E f \in Floors \ {floor} : floor' = f
    /\ floorChanged' = TRUE
    /\ sinceCommit' = IF sinceCommit = "same" THEN "changed" ELSE sinceCommit
    /\ NoRun
    /\ UNCHANGED <<export, today, filt, disk, weeklyDisk, commitCount,
                   hashSeed, probeVars, otherVars>>

\* Midnight (JST) passes between two runs.
AdvanceDay ==
    /\ pc = "idle"
    /\ today + 1 \in ClockDays
    /\ today' = today + 1
    /\ sinceCommit' = sinceCommit
    /\ NoRun
    /\ UNCHANGED <<export, floor, floorChanged, filt, disk, weeklyDisk, commitCount,
                   hashSeed, probeVars, otherVars>>

\* ---- main() ---------------------------------------------------------------------
Call(kind, arg, res, doc) == [kind |-> kind, arg |-> arg, res |-> res, doc |-> doc]

\* lines 832-873: load_state and build_daily_raw
StartRun ==
    /\ pc = "idle"
    /\ LET st == load_state
           r == build_daily_raw(export, st, max_chars, floor)
       IN /\ state' = st
          /\ daily_raw' = r.daily
          /\ progress' = r.progress
          /\ bucketed' = r.bucketed
    /\ pc' = "props"
    /\ exitCode' = "none"
    /\ chunks' = <<>>
    /\ chunkIdx' = 1
    /\ daily_summaries' = <<>>
    /\ dayIdx' = 1
    /\ successful_days' = <<>>
    /\ failed_days' = <<>>
    /\ registration_date' = None
    /\ callLog' = <<>>
    /\ ckptSaved' = FALSE
    /\ weeklySaved' = FALSE
    /\ runStart' = [disk |-> disk, weeklyDisk |-> weeklyDisk, sinceCommit |-> sinceCommit]
    /\ UNCHANGED <<envVars, disk, weeklyDisk, sinceCommit, commitCount>>

\* the run ends: sys.exit / an uncaught exception ("fatal") or a return ("ok")
Finish(code) ==
    /\ pc' = "idle"
    /\ exitCode' = code

\* lines 883-923: notion_get_title_date_props, then the requests are laid out
GetProps ==
    /\ pc = "props"
    /\ \E res \in {"ok", "raise"} :
        /\ callLog' = Append(callLog, Call("props", 0, res, ""))
        /\ IF res = "raise"
           THEN /\ Finish("fatal")
                /\ UNCHANGED <<chunks, daily_summaries>>
           ELSE LET reqs == Requests(daily_raw)
                IN /\ chunks' = reqs
                   /\ exitCode' = exitCode
                   /\ IF reqs = <<>>
                      THEN /\ daily_summaries' = [d \in DOMAIN daily_raw |-> "missing"]
                           /\ pc' = IF DOMAIN daily_raw = {} THEN "commit" ELSE "publish"
                      ELSE /\ daily_summaries' = daily_summaries
                           /\ pc' = "summarize"
    /\ UNCHANGED <<envVars, disk, weeklyDisk, state, daily_raw, progress, chunkIdx,
                   dayIdx, successful_days, failed_days, registration_date,
                   ckptSaved, weeklySaved, runStart, sinceCommit, commitCount, bucketed>>

\* lines 925-991: one summarize() call; after the last one the answer is cut into
\* day sections.  What the summariser writes is its own affair: for every day of
\* daily_raw the parsed mapping holds no entry ("missing"), an entry of at most
\* five characters ("empty") or a summary ("text").
\* variant: an exception of summarize() is swallowed
SummarizeAborts_Never(res) == FALSE
\* summarize() is called outside any try: its exception ends the run
SummarizeAborts(res) == res = "raise"

SummarizeCall ==
    /\ pc = "summarize"
    /\ chunkIdx <= Len(chunks)
    /\ \E res \in {"ok", "raise"} :
        /\ callLog' = Append(callLog, Call("summarize", chunkIdx, res, ""))
        /\ IF SummarizeAborts(res)
           THEN /\ Finish("fatal")
                /\ UNCHANGED <<chunkIdx, daily_summaries>>
           ELSE /\ chunkIdx' = chunkIdx + 1
                /\ exitCode' = exitCode
                /\ IF chunkIdx = Len(chunks)
                   THEN /\ daily_summaries' \in
                              [DOMAIN daily_raw -> {"missing", "empty", "text"}]
                        /\ pc' = "publish"
                   ELSE /\ daily_summaries' = daily_summaries
                        /\ pc' = pc
    /\ UNCHANGED <<envVars, disk, weeklyDisk, state, daily_raw, progress, chunks,
                   dayIdx, successful_days, failed_days, registration_date,
                   ckptSaved, weeklySaved, runStart, sinceCommit, commitCount, bucketed>>

\* lines 1007-1024: the document of a day
DayDocument(day, summaries) ==
    IF summaries[day] = "text" THEN "summary"
    ELSE IF summaries[day] = "empty" THEN "no_summary"
    ELSE "no_data"

\* variant: the value notion_create_page returns is not looked at
PublishOk_Unchecked(res) == res # "raise"
\* line 1031: if url
PublishOk(res) == res = "url"
\* variant: the loop goes on after a failed day
StopOnFailedDay_Off == FALSE
\* line 1045: raise SystemExit
StopOnFailedDay == TRUE

\* lines 1002-1045: one turn of the publish loop.  notion_create_page returns the
\* page url, returns None (lines 605-607, 649-672) or lets requests raise.
PublishDay ==
    /\ pc = "publish"
    /\ dayIdx <= Len(SortedDays(daily_raw))
    /\ LET day == SortedDays(daily_raw)[dayIdx]
           last == dayIdx = Len(SortedDays(daily_raw))
       IN \E res \in {"url", "none", "raise"} :
            /\ callLog' = Append(callLog,
                    Call("publish", day, res, DayDocument(day, daily_summaries)))
            /\ IF res = "raise"
               THEN /\ UNCHANGED <<successful_days, failed_days, dayIdx>>
                    /\ Finish("fatal")
               ELSE IF PublishOk(res)
               THEN /\ successful_days' = Append(successful_days, day)
                    /\ failed_days' = failed_days
                    /\ dayIdx' = dayIdx + 1
                    /\ exitCode' = exitCode
                    /\ pc' = IF last THEN "commit" ELSE pc
               ELSE /\ successful_days' = successful_days
                    /\ failed_days' = Append(failed_days, day)
                    /\ IF StopOnFailedDay
                       THEN /\ dayIdx' = dayIdx
                            /\ Finish("fatal")
                       ELSE /\ dayIdx' = dayIdx + 1
                            /\ exitCode' = exitCode
                            /\ pc' = IF last THEN "commit" ELSE pc
    /\ UNCHANGED <<envVars, disk, weeklyDisk, state, daily_raw, progress, chunks,
                   chunkIdx, daily_summaries, registration_date,
                   ckptSaved, weeklySaved, runStart, sinceCommit, commitCount, bucketed>>

\* variant: the mark of a conversation is set to the max_ts of the run
MergeProgress_Assign(st, prog) ==
    [conv_hwm |-> [c \in Convs |-> prog[c].max_ts],
     seen |-> [c \in Convs |-> st.seen[c] \o SetToSeq(prog[c].new_seen)]]
\* lines 1050-1054: progress is merged into state
MergeProgress(st, prog) ==
    [conv_hwm |-> [c \in Convs |->
                     IF prog[c].new_seen # {} /\ prog[c].max_ts > st.conv_hwm[c]
                     THEN prog[c].max_ts ELSE st.conv_hwm[c]],
     seen |-> [c \in Convs |-> st.seen[c] \o SetToSeq(prog[c].new_seen)]]

\* variant: a run that published no day saves its state all the same
CommitGuard_NoFailure == failed_days = <<>>
\* line 1048
CommitGuard == successful_days # <<>> /\ failed_days = <<>>

ProgressIds(prog) == UNION {prog[c].new_seen : c \in Convs}

\* lines 1047-1058
CommitState ==
    /\ pc = "commit"
    /\ IF CommitGuard
       THEN /\ state' = MergeProgress(state, progress)
            /\ disk' = state'
            /\ ckptSaved' = TRUE
            /\ sinceCommit' = "same"
            /\ commitCount' =
                 [i \in DOMAIN commitCount \cup ProgressIds(progress) |->
                    IF i \in ProgressIds(progress)
                    THEN (IF i \in DOMAIN commitCount
                          THEN Min({2, commitCount[i] + 1}) ELSE 1)
                    ELSE commitCount[i]]
       ELSE UNCHANGED <<state, disk, ckptSaved, sinceCommit, commitCount>>
    /\ pc' = "weekly"
    /\ UNCHANGED <<envVars, weeklyDisk, exitCode, daily_raw, progress, chunks,
                   chunkIdx, daily_summaries, dayIdx, successful_days, failed_days,
                   registration_date, callLog, weeklySaved, runStart, bucketed>>

\* ---- main(): the weekly report (lines 1060-1184) ----------------------------------
\* variant: the Saturday of the week of last_date, whatever the day of last_date
next_saturday_NoStep(last_date) == last_date - (last_date % 7) + 5
\* lines 1077-1082 (and daily_chatgpt_summary.py lines 201-206, 417-421):
\* date.weekday() is 0 on a Monday, and day 0 is a Monday
next_saturday(last_date) ==
    LET sat == last_date - (last_date % 7) + 5
    IN IF sat <= last_date THEN sat + 7 ELSE sat

\* daily_chatgpt_summary.has_sufficient_weekly_data
has_sufficient_weekly_data == TRUE

\* variant: the report is due from the day after the next Saturday
should_create_After(last_weekly_date) ==
    IF last_weekly_date # None THEN today > next_saturday(last_weekly_date)
    ELSE has_sufficient_weekly_data
\* lines 1076-1090 (and daily_chatgpt_summary.py lines 416-431)
should_create(last_weekly_date) ==
    IF last_weekly_date # None THEN today >= next_saturday(last_weekly_date)
    ELSE has_sufficient_weekly_data

\* variant: a run without new messages ends before the weekly report
WeeklyCheck_SkipWhenEmpty ==
    /\ pc = "weekly"
    /\ IF DOMAIN daily_raw # {} /\ should_create(weeklyDisk)
       THEN /\ pc' = "weekly_report"
            /\ exitCode' = exitCode
       ELSE Finish("ok")
    /\ UNCHANGED <<envVars, disk, weeklyDisk>>
    /\ UNCHANGED runVars
    /\ UNCHANGED histVars
\* lines 1066-1094, 1181-1182
WeeklyCheck ==
    /\ pc = "weekly"
    /\ IF should_create(weeklyDisk)
       THEN /\ pc' = "weekly_report"
            /\ exitCode' = exitCode
       ELSE Finish("ok")
    /\ UNCHANGED <<envVars, disk, weeklyDisk>>
    /\ UNCHANGED runVars
    /\ UNCHANGED histVars

\* variant: a first report is filed on a Friday as on any other day
RegistrationDate_NoSkip(original_last_weekly_date) ==
    IF original_last_weekly_date # None
    THEN next_saturday(original_last_weekly_date) + 1
    ELSE today - (today % 7) + 4 + 2
\* variant: with an earlier report, the Sunday before the next Saturday
RegistrationDate_SundayBefore(original_last_weekly_date) ==
    IF original_last_weekly_date # None
    THEN next_saturday(original_last_weekly_date) - 6
    ELSE LET friday == today - (today % 7) + 4
         IN IF today = friday THEN None ELSE friday + 2
\* lines 1121-1145: the date the report is filed under; None when the run returns
RegistrationDate(original_last_weekly_date) ==
    IF original_last_weekly_date # None
    THEN next_saturday(original_last_weekly_date) + 1
    ELSE LET monday == today - (today % 7)
             friday == monday + 4
         IN IF today = friday THEN None ELSE friday + 2

\* daily_chatgpt_summary.get_weekly_date_range (lines 220-232), called at line
\* 1098: the Monday and the Friday of the week of today
get_weekly_date_range ==
    LET monday == today - (today % 7)
    IN [monday |-> monday, friday |-> monday + 4]

\* lines 1098-1145: create_weekly_report returns the report, returns nothing (no
\* API key, an empty answer) or raises
WeeklyReport ==
    /\ pc = "weekly_report"
    /\ \E res \in {"text", "none", "raise"} :
        /\ callLog' = Append(callLog, Call("weekly_summarize", get_weekly_date_range.friday, res, ""))
        /\ IF res = "raise"
           THEN /\ Finish("fatal")
                /\ registration_date' = registration_date
           ELSE IF res = "none"
           THEN /\ Finish("ok")
                /\ registration_date' = registration_date
           ELSE /\ registration_date' = RegistrationDate(runStart.weeklyDisk)
                /\ IF registration_date' = None
                   THEN Finish("ok")
                   ELSE /\ pc' = "weekly_publish"
                        /\ exitCode' = exitCode
    /\ UNCHANGED <<envVars, disk, weeklyDisk, state, daily_raw, progress, chunks,
                   chunkIdx, daily_summaries, dayIdx, successful_days, failed_days,
                   ckptSaved, weeklySaved, runStart, sinceCommit, commitCount, bucketed>>

\* lines 1161-1178: notion_create_weekly_page returns a page with a url, returns
\* one without, or raises (lines 698-699)
\* variant: the date is saved as soon as the call returns, before the url is looked at
SavesWeekly_Early(res) == res # "raise"
\* lines 1165-1168: save_last_weekly_report_date is called in the url branch only
SavesWeekly(res) == res = "url"

WeeklyPublish ==
    /\ pc = "weekly_publish"
    /\ \E res \in {"url", "none", "raise"} :
        /\ callLog' = Append(callLog, Call("weekly_publish", registration_date, res, ""))
        /\ IF SavesWeekly(res)
           THEN /\ weeklyDisk' = registration_date
                /\ weeklySaved' = TRUE
           ELSE UNCHANGED <<weeklyDisk, weeklySaved>>
        /\ IF res = "url" THEN Finish("ok") ELSE Finish("fatal")
    /\ UNCHANGED <<envVars, disk, state, daily_raw, progress, chunks,
                   chunkIdx, daily_summaries, dayIdx, successful_days, failed_days,
                   registration_date, ckptSaved, runStart, sinceCommit, commitCount, bucketed>>

\* Runs over a growing export, with one floor and on one day.
Next ==
    \/ AddMessage
    \/ StartRun
    \/ GetProps
    \/ SummarizeCall
    \/ PublishDay
    \/ CommitState
    \/ WeeklyCheck
    \/ WeeklyReport
    \/ WeeklyPublish

Spec == Init /\ [][Next]_vars

\* ---- the eligibility filter alone ------------------------------------------------------
\* state.json and the export are files: the filter is applied to any timestamp,
\* high-water mark, message id and seen list they may hold.
FilterInputs ==
    [ts : TsVals \cup {None}, last_ts : TsVals \cup {-1}, mid : 1..MaxMsgs,
     seen_set : SUBSET (1..MaxMsgs), out : {"unset"}]

FilterInit ==
    /\ InitFiles
    /\ OthersUnset
    /\ filt \in FilterInputs
    /\ retry = NoRetry
    /\ seg = NoSeg
    /\ par = NoPar

\* lines 178-185 for one message
ApplyFilter ==
    /\ filt.out = "unset"
    /\ filt' = [filt EXCEPT !.out =
                  IF Eligible([mid |-> filt.mid, ts |-> filt.ts], filt.last_ts, filt.seen_set)
                  THEN "accept" ELSE "skip"]
    /\ UNCHANGED <<export, floor, floorChanged, today, disk, weeklyDisk, pc, exitCode,
                   hashSeed, probeVars, otherVars>>
    /\ UNCHANGED runVars
    /\ UNCHANGED histVars

FilterSpec == FilterInit /\ [][ApplyFilter]_vars

\* ---- build_daily_raw of an aborted run and of its retry --------------------------
\* An export of the messages form may hold messages without an id.
LegacyMessages(mid) ==
    {[rec |-> r, mid |-> mid, role |-> "user", ts |-> t, n |-> l, legacy |-> TRUE] :
        r \in Recs, t \in TsVals \cup {None}, l \in LineLens}

AddLegacyMessage ==
    /\ pc = "idle"
    /\ Cardinality(export) < MaxMsgs
    /\ \E m \in LegacyMessages(Cardinality(export) + 1) : export' = export \cup {m}
    /\ sinceCommit' = IF sinceCommit = "same" THEN "changed" ELSE sinceCommit
    /\ NoRun
    /\ UNCHANGED <<floor, floorChanged, today, filt, disk, weeklyDisk, commitCount,
                   hashSeed, probeVars, otherVars>>

\* what lines 872-873 return, the text of a day taken as the characters it holds
TextOf(t) == [i \in DOMAIN t |-> [n |-> t[i].n, whole |-> t[i].whole]]
Derived ==
    LET r == build_daily_raw(export, load_state, max_chars, floor)
    IN [daily |-> [d \in DOMAIN r.daily |-> TextOf(r.daily[d])], progress |-> r.progress]

\* a run derives its day mapping and its progress and then aborts
RetryFirst ==
    /\ retry.stage = "unset"
    /\ export # {}
    /\ retry' = [stage |-> "aborted", first |-> Derived, second |-> Derived]
    /\ UNCHANGED <<export, floor, floorChanged, today, disk, weeklyDisk, pc, exitCode,
                   filt, hashSeed, seg, par, otherVars>>
    /\ UNCHANGED runVars
    /\ UNCHANGED histVars

\* the retry is another process: it has a hash seed of its own
NewProcess ==
    /\ retry.stage = "aborted"
    /\ hashSeed' \in Seeds
    /\ retry' = [retry EXCEPT !.stage = "restarted"]
    /\ UNCHANGED <<export, floor, floorChanged, today, disk, weeklyDisk, pc, exitCode,
                   filt, seg, par, otherVars>>
    /\ UNCHANGED runVars
    /\ UNCHANGED histVars

\* the retry reads the same export, state.json and floor
RetrySecond ==
    /\ retry.stage = "restarted"
    /\ retry' = [retry EXCEPT !.stage = "retried", !.second = Derived]
    /\ UNCHANGED <<export, floor, floorChanged, today, disk, weeklyDisk, pc, exitCode,
                   filt, hashSeed, seg, par, otherVars>>
    /\ UNCHANGED runVars
    /\ UNCHANGED histVars

GrowExport ==
    /\ retry.stage = "unset"
    /\ (AddMessage \/ AddLegacyMessage)

RetryNext ==
    \/ GrowExport
    \/ RetryFirst
    \/ NewProcess
    \/ RetrySecond

RetrySpec == Init /\ [][RetryNext]_vars

\* ---- the segmenter alone -----------------------------------------------------------
\* The day mappings build_daily_raw can return for two days: per day no message,
\* one or two, each with a line of one of the lengths SegLens, joined and capped.
SegLens == {3, 4, 20}
SegDays == {3, 4}
SegBuckets ==
    {<<>>} \cup {<<[n |-> a, mid |-> 1]>> : a \in SegLens}
           \cup {<<[n |-> a, mid |-> 1], [n |-> b, mid |-> 2]>> : a \in SegLens, b \in SegLens}
SegDaily(buckets) ==
    [d \in {x \in SegDays : buckets[x] # <<>>} |-> CapText(Joined(buckets[d]), max_chars)]
SegInputs ==
    {[stage |-> "input", daily |-> SegDaily(b), chunks |-> <<>>] : b \in [SegDays -> SegBuckets]}

SegInit ==
    /\ InitFiles
    /\ OthersUnset
    /\ filt = NoFilter
    /\ retry = NoRetry
    /\ par = NoPar
    /\ seg \in SegInputs

\* lines 896-923 for one day mapping
ApplySegmenter ==
    /\ seg.stage = "input"
    /\ seg' = [seg EXCEPT !.stage = "done", !.chunks = Requests(seg.daily)]
    /\ UNCHANGED <<export, floor, floorChanged, today, disk, weeklyDisk, pc, exitCode,
                   filt, hashSeed, retry, par, otherVars>>
    /\ UNCHANGED runVars
    /\ UNCHANGED histVars

SegmentSpec == SegInit /\ [][ApplySegmenter]_vars

\* ---- the response parser alone (chunked mode) -----------------------------------
\* A markdown text is the sequence of its lines.  A line is a heading
\* "## YYYY-MM-DD" of a day, a line of summary text (tagged to tell one from
\* another), the header "## 部分 N" of line 930, the title of line 933, or blank.
DateLine(d) == [kind |-> "date", day |-> d, tag |-> 0]
BodyLine(t) == [kind |-> "body", day |-> None, tag |-> t]
PartLine(i) == [kind |-> "part", day |-> None, tag |-> i]
TitleLine == [kind |-> "title", day |-> None, tag |-> 0]
BlankLine == [kind |-> "blank", day |-> None, tag |-> 0]

RECURSIVE MdStripLeft(_)
MdStripLeft(t) == IF t = <<>> THEN <<>>
                  ELSE IF Head(t).kind = "blank" THEN MdStripLeft(Tail(t)) ELSE t
RECURSIVE MdStripRight(_)
MdStripRight(t) == IF t = <<>> THEN <<>>
                   ELSE IF t[Len(t)].kind = "blank"
                        THEN MdStripRight(SubSeq(t, 1, Len(t) - 1)) ELSE t
MdStrip(t) == MdStripRight(MdStripLeft(t))

\* what summarize() returns for a chunk: day sections, "## day" and a line of
\* text each, a blank line between two sections
RECURSIVE ResponseText(_)
ResponseText(secs) ==
    IF secs = <<>> THEN <<>>
    ELSE <<DateLine(Head(secs).day), BodyLine(Head(secs).tag)>>
         \o (IF Tail(secs) = <<>> THEN <<>> ELSE <<BlankLine>> \o ResponseText(Tail(secs)))

\* line 930: f"## 部分 {i+1}\n{chunk_md}"
ChunkSummary(i, chunk_md) ==
    <<PartLine(i)>> \o (IF chunk_md = <<>> THEN <<BlankLine>> ELSE chunk_md)
\* "\n\n".join(chunk_summaries)
RECURSIVE JoinSummaries(_)
JoinSummaries(ss) ==
    IF ss = <<>> THEN <<BlankLine>>
    ELSE IF Len(ss) = 1 THEN Head(ss)
    ELSE Head(ss) \o <<BlankLine>> \o JoinSummaries(Tail(ss))
\* lines 933-934
CombinedMd(responses) ==
    <<TitleLine, BlankLine>>
    \o JoinSummaries([i \in DOMAIN responses |-> ChunkSummary(i, responses[i])])

\* line 949: re.split(r'\n(?=## \d{4}-\d{2}-\d{2})', combined_md): a section
\* ends before every date heading but one on the first line.
\* acc = the sections closed so far, cur = the lines of the open one
\* the lookahead of line 949 matches the line
SplitsBefore(line) == line.kind \in {"date", "date_bad", "date_more"}
RECURSIVE SplitSections(_, _, _)
SplitSections(lines, cur, acc) ==
    IF lines = <<>> THEN Append(acc, cur)
    ELSE IF SplitsBefore(Head(lines)) /\ (cur # <<>> \/ acc # <<>>)
         THEN SplitSections(Tail(lines), <<Head(lines)>>, Append(acc, cur))
         ELSE SplitSections(Tail(lines), Append(cur, Head(lines)), acc)

\* Other first lines a section may have: "## " and a date of the form
\* dddd-dd-dd that is no calendar date ("date_bad"), "## " and a date followed by
\* more text ("date_more"), "## " and a date whose month or day has one digit
\* ("date_short"), a date without "## " ("bare"), "## " and another text ("head").
HeadLine(kind, d) == [kind |-> kind, day |-> d, tag |-> 0]
\* the key "2025-9-5" is another string than "2025-09-05"
Unpadded(d) == 1000 + d
\* variant: the date of a heading is not validated
DayKey_Unchecked(line) ==
    IF line.kind \in {"date", "bare", "date_bad"} THEN line.day
    ELSE IF line.kind = "date_short" THEN Unpadded(line.day)
    ELSE None
\* lines 966-981: the day is what follows "## " on the first line, or the first
\* line itself when it starts with dddd-dd-dd, and it is kept when
\* datetime.strptime(day, "%Y-%m-%d") takes it; strptime takes a month and a
\* day of one digit and refuses text after the date
DayKey(line) ==
    IF line.kind \in {"date", "bare"} THEN line.day
    ELSE IF line.kind = "date_short" THEN Unpadded(line.day)
    ELSE None

\* lines 959-988: the sections are put in the mapping one after the other
RECURSIVE ParseSections(_, _)
ParseSections(sections, summaries) ==
    IF sections = <<>> THEN summaries
    ELSE LET section == MdStrip(Head(sections))
             rest == Tail(sections)
         IN IF section = <<>> THEN ParseSections(rest, summaries)
            ELSE IF DayKey(section[1]) = None THEN ParseSections(rest, summaries)
            ELSE LET day == DayKey(section[1])
                     content == MdStrip(Tail(section))
                 IN ParseSections(rest,
                        [d \in DOMAIN summaries \cup {day} |->
                            IF d = day THEN content ELSE summaries[d]])

ParseChunked(responses) ==
    ParseSections(SplitSections(CombinedMd(responses), <<>>, <<>>), <<>>)

\* the answers to two chunks: up to two day sections each, of different days
ParDays == {3, 4, 5}
ParResponses ==
    {<<>>} \cup {<<[day |-> d, tag |-> 1]>> : d \in ParDays}
           \cup UNION {{<<[day |-> d, tag |-> 1], [day |-> e, tag |-> 2]>> :
                            e \in ParDays \ {d}} : d \in ParDays}
ParInputs ==
    {[stage |-> "input", answers |-> <<a, b>>, summaries |-> <<>>] :
        a \in ParResponses, b \in ParResponses}

ParInit ==
    /\ InitFiles
    /\ OthersUnset
    /\ filt = NoFilter
    /\ retry = NoRetry
    /\ seg = NoSeg
    /\ par \in ParInputs

\* lines 925-988 for the answers to two chunks
ApplyParser ==
    /\ par.stage = "input"
    /\ par' = [par EXCEPT !.stage = "done",
                          !.summaries = ParseChunked([i \in DOMAIN par.answers |->
                                                        ResponseText(par.answers[i])])]
    /\ UNCHANGED <<export, floor, floorChanged, today, disk, weeklyDisk, pc, exitCode,
                   filt, hashSeed, retry, seg, otherVars>>
    /\ UNCHANGED runVars
    /\ UNCHANGED histVars

ParseSpec == ParInit /\ [][ApplyParser]_vars

\* ---- the response parser alone (one call) ---------------------------------------
\* The answer of summarize() to the one request: one or two blocks, each a first
\* line of any of the forms above and a line of text, a blank line between them.
HeadDays == {3, 4}
FirstLines ==
    {HeadLine(k, d) : k \in {"date", "date_bad", "date_more", "date_short", "bare"},
                      d \in HeadDays}
    \cup {HeadLine("head", None), BodyLine(9)}
Block(first, t) == <<first, BodyLine(t)>>
AnswerTexts ==
    {Block(a, 1) : a \in FirstLines}
    \cup {Block(a, 1) \o <<BlankLine>> \o Block(b, 2) : a \in FirstLines, b \in FirstLines}
AnswerInputs == {[stage |-> "input", text |-> t, summaries |-> <<>>] : t \in AnswerTexts}

AnswerInit ==
    /\ InitFiles
    /\ OthersUnset
    /\ filt = NoFilter
    /\ retry = NoRetry
    /\ seg = NoSeg
    /\ par \in AnswerInputs

\* lines 938-988 for the answer to one request
ApplyAnswerParser ==
    /\ par.stage = "input"
    /\ par' = [par EXCEPT !.stage = "done",
                          !.summaries = ParseSections(SplitSections(par.text, <<>>, <<>>), <<>>)]
    /\ UNCHANGED <<export, floor, floorChanged, today, disk, weeklyDisk, pc, exitCode,
                   filt, hashSeed, retry, seg, otherVars>>
    /\ UNCHANGED runVars
    /\ UNCHANGED histVars

AnswerSpec == AnswerInit /\ [][ApplyAnswerParser]_vars

\* ---- runs under a floor that is changed -----------------------------------------
\* The export is complete before the first commit; after it only the floor
\* changes between runs.
GrowBeforeCommit ==
    /\ disk = EmptyState
    /\ AddMessage

FloorNext ==
    \/ GrowBeforeCommit
    \/ ChangeFloor
    \/ StartRun
    \/ GetProps
    \/ SummarizeCall
    \/ PublishDay
    \/ CommitState
    \/ WeeklyCheck
    \/ WeeklyReport
    \/ WeeklyPublish

FloorSpec == Init /\ [][FloorNext]_vars

\* The same, with the floor and the date changing between runs.
NextEnv ==
    \/ Next
    \/ ChangeFloor
    \/ AdvanceDay

SpecEnv == Init /\ [][NextEnv]_vars

\* ---- runs over an export of the messages form ------------------------------------
\* Every run is a process of its own: between two runs the hash seed may change.
NextProcess ==
    /\ pc = "idle"
    /\ hashSeed' \in Seeds \ {hashSeed}
    /\ sinceCommit' = sinceCommit
    /\ NoRun
    /\ UNCHANGED <<export, floor, floorChanged, today, filt, disk, weeklyDisk,
                   commitCount, probeVars, otherVars>>

LegacyNext ==
    \/ AddLegacyMessage
    \/ NextProcess
    \/ StartRun
    \/ GetProps
    \/ SummarizeCall
    \/ PublishDay
    \/ CommitState
    \/ WeeklyCheck
    \/ WeeklyReport
    \/ WeeklyPublish

LegacySpec == Init /\ [][LegacyNext]_vars

\* ---- daily_chatgpt_summary.main(): the script of the second file --------------------
\* The script summarises a text of its own, files the summary under today's date
\* and then goes through a weekly step of its own (lines 402-487).  It reads and
\* writes the same weekly_report_config.json.  Runs are made one after another.
mainVars == <<pc, exitCode, runVars, histVars>>
dsRest == <<export, floor, floorChanged, today, disk, filt, hashSeed, probeVars, fs, capp, rd, ord>>

DsStep(to, call) == [ds EXCEPT !.pc = to, !.calls = Append(@, call)]
DsEnd(code, call) == [ds EXCEPT !.pc = "ended", !.exit = code, !.calls = Append(@, call)]

\* lines 321-335: the keys are read from the environment
DsStart ==
    /\ pc = "idle"
    /\ ds.pc = "idle"
    /\ ds' = [NoDs EXCEPT !.pc = "recap", !.start = weeklyDisk]
    /\ sinceCommit' = sinceCommit
    /\ NoRun
    /\ UNCHANGED <<dsRest, weeklyDisk, commitCount>>

\* lines 355-366: client.chat.completions.create, outside any try
DsRecap ==
    /\ ds.pc = "recap"
    /\ \E res \in {"text", "raise"} :
         ds' = IF res = "raise" THEN DsEnd("fatal", Call("summarize", 0, res, ""))
               ELSE DsStep("page", Call("summarize", 0, res, ""))
    /\ UNCHANGED <<dsRest, weeklyDisk, mainVars>>

\* lines 390-395: get_db_props and create_page raise on a status other than
\* 200/201 (lines 268, 316); page.get("url") is only printed
DsPage ==
    /\ ds.pc = "page"
    /\ \E res \in {"url", "none", "raise"} :
         ds' = IF res = "raise" THEN DsEnd("fatal", Call("publish", today, res, ""))
               ELSE DsStep("weekly", Call("publish", today, res, ""))
    /\ UNCHANGED <<dsRest, weeklyDisk, mainVars>>

\* lines 410-433, 485-486
DsWeeklyCheck ==
    /\ ds.pc = "weekly"
    /\ ds' = IF should_create(weeklyDisk) THEN [ds EXCEPT !.pc = "weekly_report"]
             ELSE [ds EXCEPT !.pc = "ended", !.exit = "ok"]
    /\ UNCHANGED <<dsRest, weeklyDisk, mainVars>>

\* lines 436-457, 483-484: create_weekly_report returns the report, an empty
\* answer, or raises
DsWeeklyReport ==
    /\ ds.pc = "weekly_report"
    /\ \E res \in {"text", "none", "raise"} :
         ds' = IF res = "raise" THEN DsEnd("fatal", Call("weekly_summarize", 0, res, ""))
               ELSE IF res = "none" THEN DsEnd("ok", Call("weekly_summarize", 0, res, ""))
               ELSE DsStep("weekly_publish", Call("weekly_summarize", 0, res, ""))
    /\ UNCHANGED <<dsRest, weeklyDisk, mainVars>>

\* lines 459-481: the report is filed under today's date; create_page raises on a
\* status other than 200/201, and save_last_weekly_report_date(workdir, today)
\* follows whatever the returned page holds
DsWeeklyPublish ==
    /\ ds.pc = "weekly_publish"
    /\ \E res \in {"url", "none", "raise"} :
         IF res = "raise"
         THEN /\ ds' = DsEnd("fatal", Call("weekly_publish", today, res, ""))
              /\ weeklyDisk' = weeklyDisk
         ELSE /\ ds' = [DsEnd("ok", Call("weekly_publish", today, res, ""))
                          EXCEPT !.saved = TRUE]
              /\ weeklyDisk' = today
    /\ UNCHANGED <<dsRest, mainVars>>

\* the process of the script is gone
DsExit ==
    /\ ds.pc = "ended"
    /\ ds' = NoDs
    /\ UNCHANGED <<dsRest, weeklyDisk, mainVars>>

\* ---- the weekly step over two weeks ----------------------------------------------
\* Runs of main() and of the script on one of the days WeekClock, over an export
\* without messages, starting with any last_weekly_report_date of the first week
\* or with none.
WeekClock == 4..13
PriorDates == 0..6

WeeklyInit ==
    /\ InitFilesAt(WeekClock, PriorDates \cup {None})
    /\ OthersUnset
    /\ filt = NoFilter
    /\ retry = NoRetry
    /\ seg = NoSeg
    /\ par = NoPar

\* main() starts once the script is gone
MainStart ==
    /\ ds.pc = "idle"
    /\ StartRun

WeeklyNext ==
    \/ MainStart
    \/ GetProps
    \/ CommitState
    \/ WeeklyCheck
    \/ WeeklyReport
    \/ WeeklyPublish
    \/ DsStart
    \/ DsRecap
    \/ DsPage
    \/ DsWeeklyCheck
    \/ DsWeeklyReport
    \/ DsWeeklyPublish
    \/ DsExit

WeeklySpec == WeeklyInit /\ [][WeeklyNext]_vars

\* ---- saving a file ------------------------------------------------------------------
\* state.json and weekly_report_config.json while save_state (lines 46-50) or
\* save_last_weekly_report_date (lines 164-186 of daily_chatgpt_summary.py) runs
\* and a reader opens the file.  A file is absent or holds the first len pieces
\* of a document; json.dump hands the document to the file piece by piece.  The
\* process may die between any two steps.
Docs == {1, 2, 3}
Content(doc, len) == [doc |-> doc, len |-> len]
Absent == Content(0, 0)
Complete(c) == c # Absent /\ c.len = DocPieces

\* variant: save_state writes to the path itself
WriteTarget_InPlace(file) == "path"
\* line 47: tmp = path + ".tmp"; line 184: open(config_file, "w")
WriteTarget(file) == IF file = "state" THEN "tmp" ELSE "path"

\* load_state (lines 39-43): json.load raises on a document cut short;
\* get_last_weekly_report_date (lines 154-161) returns None for one
LoadResult(file, c) ==
    IF c = Absent THEN "default"
    ELSE IF Complete(c) THEN "document"
    ELSE IF file = "state" THEN "raise" ELSE "default"

FsInputs ==
    {[stage |-> "start", file |-> f, old |-> o, path |-> o, tmp |-> Absent, new |-> n,
      read |-> Absent, result |-> "unset"] :
        f \in {"state", "weekly"},
        o \in {Absent} \cup {Content(d, DocPieces) : d \in Docs},
        n \in Docs}

FsInit ==
    /\ InitFiles
    /\ ds = NoDs
    /\ capp = NoCap
    /\ rd = NoRd
    /\ ord = NoOrd
    /\ filt = NoFilter
    /\ retry = NoRetry
    /\ seg = NoSeg
    /\ par = NoPar
    /\ fs \in FsInputs

fsRest == <<export, floor, floorChanged, today, disk, weeklyDisk, filt, hashSeed,
            probeVars, ds, capp, rd, ord, mainVars>>

\* open(..., "w"): the file is created, or cut to nothing if it is there
SaveOpen ==
    /\ fs.stage = "start"
    /\ fs' = IF WriteTarget(fs.file) = "tmp"
             THEN [fs EXCEPT !.stage = "writing", !.tmp = Content(fs.new, 0)]
             ELSE [fs EXCEPT !.stage = "writing", !.path = Content(fs.new, 0)]
    /\ UNCHANGED fsRest

\* json.dump: one more piece reaches the file
SaveWrite ==
    /\ fs.stage = "writing"
    /\ fs' = IF WriteTarget(fs.file) = "tmp"
             THEN [fs EXCEPT !.tmp = Content(fs.new, @.len + 1),
                             !.stage = IF fs.tmp.len + 1 = DocPieces
                                       THEN "written" ELSE "writing"]
             ELSE [fs EXCEPT !.path = Content(fs.new, @.len + 1),
                             !.stage = IF fs.path.len + 1 = DocPieces
                                       THEN "done" ELSE "writing"]
    /\ UNCHANGED fsRest

\* line 50: os.replace(tmp, path), in one step
SaveReplace ==
    /\ fs.stage = "written"
    /\ fs' = [fs EXCEPT !.stage = "done", !.path = fs.tmp, !.tmp = Absent]
    /\ UNCHANGED fsRest

\* the process dies
SaveCrash ==
    /\ fs.stage \in {"start", "writing", "written"}
    /\ fs' = [fs EXCEPT !.stage = "crashed"]
    /\ UNCHANGED fsRest

\* another process opens the path and loads it
ReadFile ==
    /\ fs.stage # "unset"
    /\ fs' = [fs EXCEPT !.read = fs.path, !.result = LoadResult(fs.file, fs.path)]
    /\ UNCHANGED fsRest

SaveNext ==
    \/ SaveOpen
    \/ SaveWrite
    \/ SaveReplace
    \/ SaveCrash
    \/ ReadFile

SaveSpec == FsInit /\ [][SaveNext]_vars

\* ---- the per-day cap alone ------------------------------------------------------------
\* The lines of one day: one to three, each of one of the lengths CapLens, which
\* put the joined text below the cap, on it and above it.
CapLens == {3, 17, 18, 20}
CapBuckets ==
    {<<[n |-> a, mid |-> 1]>> : a \in CapLens}
    \cup {<<[n |-> a, mid |-> 1], [n |-> b, mid |-> 2]>> : a \in CapLens, b \in CapLens}
    \cup {<<[n |-> a, mid |-> 1], [n |-> b, mid |-> 2], [n |-> c, mid |-> 3]>> :
            a \in CapLens, b \in CapLens, c \in CapLens}
CapInputs == {[stage |-> "input", lines |-> b, out |-> <<>>] : b \in CapBuckets}

CapInit ==
    /\ InitFiles
    /\ ds = NoDs
    /\ fs = NoFs
    /\ rd = NoRd
    /\ ord = NoOrd
    /\ filt = NoFilter
    /\ retry = NoRetry
    /\ seg = NoSeg
    /\ par = NoPar
    /\ capp \in CapInputs

\* lines 200-205 for the lines of one day
ApplyCap ==
    /\ capp.stage = "input"
    /\ capp' = [capp EXCEPT !.stage = "done",
                            !.out = CapText(Joined(capp.lines), max_chars)]
    /\ UNCHANGED <<export, floor, floorChanged, today, disk, weeklyDisk, filt, hashSeed,
                   probeVars, ds, fs, rd, ord, mainVars>>

CapSpec == CapInit /\ [][ApplyCap]_vars

\* ---- main() run again and again on one day ---------------------------------------------
\* The export is empty and the date stays what it is; the last report date is
\* up to three weeks old, or there is none.
CatchUpClock == 4..20
CatchUpInit ==
    /\ InitFilesAt(CatchUpClock, PriorDates \cup {None})
    /\ OthersUnset
    /\ filt = NoFilter
    /\ retry = NoRetry
    /\ seg = NoSeg
    /\ par = NoPar

CatchUpNext ==
    \/ MainStart
    \/ GetProps
    \/ CommitState
    \/ WeeklyCheck
    \/ WeeklyReport
    \/ WeeklyPublish

\* the calls of a run that go through
PropsSucceed == GetProps /\ pc' # "idle"
ReportSucceeds == WeeklyReport /\ callLog'[Len(callLog')].res = "text"
PublishSucceeds == WeeklyPublish /\ weeklySaved'
\* main() is started again whenever it has ended, a started run goes on to its
\* end, and a call that is made again and again does not fail for ever
CatchUpSpec ==
    /\ CatchUpInit
    /\ [][CatchUpNext]_vars
    /\ WF_vars(CatchUpNext)
    /\ SF_vars(PropsSucceed)
    /\ SF_vars(ReportSucceeds)
    /\ SF_vars(PublishSucceeds)

\* ---- the message loop on one record read in two orders ------------------------------
\* The nodes of a mapping come in the order of the export file.  One record
\* with two or three messages, a high-water mark and a seen list, and a second
\* order of the same messages.
Perms(n) == {p \in [1..n -> 1..n] : \A i, j \in 1..n : i # j => p[i] # p[j]}
OrdMessage(mid, t) ==
    [rec |-> Min(Recs), mid |-> mid, role |-> "user", ts |-> t, n |-> Min(LineLens),
     legacy |-> FALSE]
OrdRecords ==
    {<<OrdMessage(1, a), OrdMessage(2, b)>> : a \in TsVals \cup {None}, b \in TsVals \cup {None}}
    \cup {<<OrdMessage(1, a), OrdMessage(2, b), OrdMessage(3, c)>> :
            a \in TsVals \cup {None}, b \in TsVals \cup {None}, c \in TsVals \cup {None}}
OrdInputs ==
    {[stage |-> "input", msgs |-> ms, perm |-> p, last_ts |-> h, seen_set |-> s,
      first |-> <<>>, second |-> <<>>] :
        ms \in OrdRecords, p \in Perms(3), h \in {-1} \cup TsVals, s \in {{}, {1}}}

OrdInit ==
    /\ InitFiles
    /\ ds = NoDs
    /\ fs = NoFs
    /\ capp = NoCap
    /\ rd = NoRd
    /\ filt = NoFilter
    /\ retry = NoRetry
    /\ seg = NoSeg
    /\ par = NoPar
    /\ ord \in {o \in OrdInputs : Len(o.msgs) = 3 \/ o.perm[3] = 3}

Permuted(msgs, p) == [i \in 1..Len(msgs) |-> msgs[p[i]]]
\* lines 172-198 for one record
RecordLoop(msgs, last_ts, seen_set) ==
    MsgLoop(msgs, [buckets |-> [d \in DayRange |-> <<>>], new_seen |-> {},
                   max_ts |-> last_ts],
            last_ts, seen_set, floor)

ApplyOrders ==
    /\ ord.stage = "input"
    /\ ord' = [ord EXCEPT !.stage = "done",
                          !.first = RecordLoop(ord.msgs, ord.last_ts, ord.seen_set),
                          !.second = RecordLoop(Permuted(ord.msgs, ord.perm),
                                                ord.last_ts, ord.seen_set)]
    /\ UNCHANGED <<export, floor, floorChanged, today, disk, weeklyDisk, filt, hashSeed,
                   probeVars, ds, fs, capp, rd, mainVars>>

OrderSpec == OrdInit /\ [][ApplyOrders]_vars

\* ---- markdown_to_notion_blocks alone ---------------------------------------------------
\* Here a string is the sequence of its characters.  "N" stands for the label
\* of line 508 between its two markers.
max_chars_per_block == 5     \* the size a pending paragraph is cut at (1900, scaled)
NextActionLabel == <<"*", "*", "N", "*", "*">>
IsSpace(c) == c \in {" ", "\n"}
StartsWith(s, p) == Len(s) >= Len(p) /\ SubSeq(s, 1, Len(p)) = p
Drop(s, n) == SubSeq(s, n + 1, Len(s))
RECURSIVE LStripStr(_)
LStripStr(s) == IF s # <<>> /\ IsSpace(Head(s)) THEN LStripStr(Tail(s)) ELSE s
RECURSIVE RStripStr(_)
RStripStr(s) ==
    IF s # <<>> /\ IsSpace(s[Len(s)]) THEN RStripStr(SubSeq(s, 1, Len(s) - 1)) ELSE s
\* str.strip()
StripStr(s) == RStripStr(LStripStr(s))
\* str.split('\n')
RECURSIVE SplitLines(_, _)
SplitLines(s, cur) ==
    IF s = <<>> THEN <<cur>>
    ELSE IF Head(s) = "\n" THEN <<cur>> \o SplitLines(Tail(s), <<>>)
    ELSE SplitLines(Tail(s), Append(cur, Head(s)))

TextSpan(content, bold) == [content |-> content, bold |-> bold]
\* "**" stands at position i
MarkerAt(text, i) == i + 1 <= Len(text) /\ text[i] = "*" /\ text[i + 1] = "*"
\* the places where \*\* closes (.*?) opened at i: "." takes no line break
Closes(text, i) ==
    {j \in (i + 2)..Len(text) :
        MarkerAt(text, j) /\ \A k \in (i + 2)..(j - 1) : text[k] # "\n"}
\* the places at or after pos where the pattern of line 337 matches
Opens(text, pos) == {i \in pos..Len(text) : MarkerAt(text, i) /\ Closes(text, i) # {}}
\* lines 338-365: the matches of re.finditer from the left, then what is left
RECURSIVE Spans(_, _, _)
Spans(text, pos, rich_text) ==
    IF Opens(text, pos) = {}
    THEN IF pos <= Len(text)
         THEN Append(rich_text, TextSpan(SubSeq(text, pos, Len(text)), FALSE))
         ELSE rich_text
    ELSE LET start == Min(Opens(text, pos))
             close == Min(Closes(text, start))
             before == IF start > pos
                       THEN <<TextSpan(SubSeq(text, pos, start - 1), FALSE)>>
                       ELSE <<>>
             bold_text == SubSeq(text, start + 2, close - 1)
         IN Spans(text, close + 2, (rich_text \o before) \o <<TextSpan(bold_text, TRUE)>>)
\* lines 331-367
parse_rich_text(text) ==
    LET rich_text == Spans(text, 1, <<>>)
    IN IF rich_text # <<>> THEN rich_text ELSE <<TextSpan(text, FALSE)>>

Paragraph(text) == [type |-> "paragraph", level |-> 0, rich_text |-> parse_rich_text(text)]
Spacer == [type |-> "paragraph", level |-> 0, rich_text |-> <<TextSpan(<<>>, FALSE)>>]
Heading(level, text) == [type |-> "heading", level |-> level, rich_text |-> parse_rich_text(text)]

\* lines 376-379
HeadLevel(line) ==
    IF StartsWith(line, <<"#", "#", "#">>) /\ ~StartsWith(line, <<"#", "#", "#", "#">>) THEN 3
    ELSE IF StartsWith(line, <<"#", "#">>) /\ ~StartsWith(line, <<"#", "#", "#">>) THEN 2
    ELSE IF StartsWith(line, <<"#">>) /\ ~StartsWith(line, <<"#", "#">>) THEN 1
    ELSE 0
\* lines 394-396, 435-437, 476-478
HeadingText(line) ==
    LET heading_text == StripStr(Drop(line, HeadLevel(line)))
    IN IF StartsWith(heading_text, <<" ">>) THEN Tail(heading_text) ELSE heading_text
\* variant: the heading is made whatever its text
HeadingBlocks_Always(level, heading_text) == <<Heading(level, heading_text), Spacer, Spacer>>
\* lines 399-421, 440-462, 481-503
HeadingBlocks(level, heading_text) ==
    IF heading_text # <<>> THEN <<Heading(level, heading_text), Spacer, Spacer>> ELSE <<>>
\* lines 373-523
RECURSIVE LineLoop(_, _, _, _)
LineLoop(lines, blocks, current_content, cap) ==
    IF lines = <<>>
    THEN \* lines 526-533
         IF StripStr(current_content) # <<>>
         THEN Append(blocks, Paragraph(StripStr(current_content)))
         ELSE blocks
    ELSE LET line == Head(lines) IN
         IF HeadLevel(line) > 0
         THEN LET flush == StripStr(current_content) # <<>>
                  saved == IF flush THEN Append(blocks, Paragraph(StripStr(current_content)))
                           ELSE blocks
              IN LineLoop(Tail(lines),
                          saved \o HeadingBlocks(HeadLevel(line), HeadingText(line)),
                          IF flush THEN <<>> ELSE current_content, cap)
         ELSE LET added ==
                      IF StripStr(line) = <<>> THEN current_content
                      ELSE IF StartsWith(StripStr(line), NextActionLabel)
                           THEN (current_content \o line) \o <<"\n", "\n">>
                           ELSE (current_content \o line) \o <<"\n">>
              IN IF Len(added) > cap
                 THEN LineLoop(Tail(lines), Append(blocks, Paragraph(StripStr(added))),
                               <<>>, cap)
                 ELSE LineLoop(Tail(lines), blocks, added, cap)
\* lines 325-535
markdown_to_notion_blocks(markdown_text, max_chars_per_block_) ==
    LineLoop(SplitLines(markdown_text, <<>>), <<>>, <<>>, max_chars_per_block_)

\* The markdown given: one to three lines, each a heading with or without a
\* text, a text with or without markers, or nothing.
RdLines ==
    { <<>>, <<"#", "#">>, <<"#", "#", "#", " ">>, <<"#", " ", "a">>, <<"#", "#", "#", "#">>,
      <<"a">>, <<" ", "b">>, <<"*", "*", "a", "*", "*">>, <<"*", "*", "*", "*">>,
      <<"*", "*", "a">>, <<"#", "#", "*", "*", "*", "*">>, NextActionLabel \o <<"b">> }
RdTexts ==
    RdLines
    \cup {(a \o <<"\n">>) \o b : a \in RdLines, b \in RdLines}
    \cup {(((a \o <<"\n">>) \o b) \o <<"\n">>) \o c : a \in RdLines, b \in RdLines, c \in RdLines}
RdInputs == {[stage |-> "input", text |-> t, blocks |-> <<>>] : t \in RdTexts}

RdInit ==
    /\ InitFiles
    /\ ds = NoDs
    /\ fs = NoFs
    /\ capp = NoCap
    /\ ord = NoOrd
    /\ filt = NoFilter
    /\ retry = NoRetry
    /\ seg = NoSeg
    /\ par = NoPar
    /\ rd \in RdInputs

ApplyRender ==
    /\ rd.stage = "input"
    /\ rd' = [rd EXCEPT !.stage = "done",
                        !.blocks = markdown_to_notion_blocks(rd.text, max_chars_per_block)]
    /\ UNCHANGED <<export, floor, floorChanged, today, disk, weeklyDisk, filt, hashSeed,
                   probeVars, ds, fs, capp, ord, mainVars>>

RenderSpec == RdInit /\ [][ApplyRender]_vars

\* ---- properties ---------------------------------------------------------------------------
\* The history of a run is in place from load_state until the next change of
\* the export, the floor or the date.
InRun == pc # "idle" \/ exitCode # "none"
RunEnded == pc = "idle" /\ exitCode # "none"
NoDuplicates(s) == \A i, j \in DOMAIN s : i # j => s[i] # s[j]
MsgOfId(mid) == CHOOSE m \in export : m.mid = mid
CallsOf(kind) == {i \in DOMAIN callLog : callLog[i].kind = kind}
FailedDaily == {i \in CallsOf("publish") : callLog[i].res # "url"}
FailedSummarize == {i \in CallsOf("summarize") : callLog[i].res = "raise"}
PublishedDays == [i \in 1..Cardinality(CallsOf("publish")) |->
                    callLog[SetToSeq(CallsOf("publish"))[i]].arg]

\* C1: no message id is in the RunProgress of two committed runs, and no
\* conversation's persisted seen list holds an id twice.
C1_AtMostOnce ==
    /\ \A i \in DOMAIN commitCount : commitCount[i] <= 1
    /\ \A c \in Convs : NoDuplicates(disk.seen[c])
\* a second commit, made while a message committed by an earlier run is still
\* in the export
C1_Witness ==
    /\ ckptSaved
    /\ bucketed # {}
    /\ \E m \in export : m.mid \in Range(runStart.disk.seen[ConvIdOf(m.rec)])

\* C2: once a run commits, every message of the export it read that has a role
\* and a text and is dated on or after the floor has been in the RunProgress of
\* a committed run, or is still eligible under the state.json just written (so
\* that a later run can take it): none is shut out for good without having
\* been recorded.
C2_NoMessageLost ==
    (ckptSaved /\ ~floorChanged) =>
        \A m \in export :
            (m.role # "" /\ ts_to_day(m.ts, floor) # None) =>
                \/ m.mid \in DOMAIN commitCount
                \/ Eligible(m, disk.conv_hwm[ConvIdOf(m.rec)],
                            Range(disk.seen[ConvIdOf(m.rec)]))

\* C3: save_state runs only after every day of daily_raw was published with
\* success, and a run with a failed daily publish leaves state.json as it
\* found it.
C3_CommitAfterAllDays ==
    /\ ckptSaved =>
         /\ DOMAIN daily_raw # {}
         /\ \A d \in DOMAIN daily_raw :
              \E i \in CallsOf("publish") : callLog[i].arg = d /\ callLog[i].res = "url"
    /\ FailedDaily # {} => (~ckptSaved /\ disk = runStart.disk)
\* a commit after two days were published
C3_Witness == ckptSaved /\ Cardinality(DOMAIN daily_raw) >= 2 /\ Len(successful_days) >= 2

\* C4: a run made on the export and the floor of the last commit buckets
\* nothing, records no progress and leaves state.json as that commit wrote it.
C4_Idempotent ==
    (InRun /\ runStart.sinceCommit = "same") =>
        /\ bucketed = {}
        /\ DOMAIN daily_raw = {}
        /\ progress = NoProgress
        /\ disk = runStart.disk

\* C5: a bucketed message with a timestamp has it above the high-water mark the
\* run loaded, and a bucketed message without one is not in the seen list the
\* run loaded.
C5_FilterInvariant ==
    InRun =>
        \A mid \in bucketed :
            LET m == MsgOfId(mid)
                c == ConvIdOf(m.rec)
            IN /\ m.ts # None => m.ts > runStart.disk.conv_hwm[c]
               /\ m.ts = None => mid \notin Range(runStart.disk.seen[c])
\* a run that buckets a message of a conversation whose high-water mark is set
\* while an older message of it is in the export
C5_Witness ==
    /\ InRun
    /\ \E m1, m2 \in export :
         /\ ConvIdOf(m1.rec) = ConvIdOf(m2.rec)
         /\ m1.mid \in bucketed
         /\ m2.mid \notin bucketed
         /\ m2.ts # None
         /\ m2.ts <= runStart.disk.conv_hwm[ConvIdOf(m2.rec)]

\* C6 as stated: the filter accepts exactly when the timestamp is above the
\* high-water mark, or it is absent and the id is not in the seen set.
C6_FilterAsStated ==
    filt.out # "unset" =>
        (filt.out = "accept" <=>
            \/ (filt.ts # None /\ filt.ts > filt.last_ts)
            \/ (filt.ts = None /\ filt.mid \notin filt.seen_set))
\* C6 amended: the filter accepts exactly when the timestamp is absent or above
\* the high-water mark, and the id is not in the seen set.
C6_FilterAmended ==
    filt.out # "unset" =>
        (filt.out = "accept" <=>
            /\ (filt.ts = None \/ filt.ts > filt.last_ts)
            /\ filt.mid \notin filt.seen_set)
\* the filter applied to a message above the high-water mark whose id is seen
C6_Witness ==
    /\ filt.out = "skip"
    /\ filt.ts # None
    /\ filt.ts > filt.last_ts
    /\ filt.mid \in filt.seen_set

\* C7: a failed daily publish is the last external call of its run: no later
\* day and no weekly report is published, state.json is not written, the run
\* exits with an error, and successful_days holds the days published before it.
C7_FailFast ==
    \A i \in FailedDaily :
        /\ i = Len(callLog)
        /\ RunEnded /\ exitCode = "fatal"
        /\ ~ckptSaved /\ disk = runStart.disk
        /\ successful_days = SubSeq(PublishedDays, 1, Len(PublishedDays) - 1)
\* the first of two days fails
C7_Witness ==
    /\ FailedDaily # {}
    /\ successful_days = <<>>
    /\ Cardinality(DOMAIN daily_raw) >= 2

\* C8: the daily publish calls are the days of daily_raw in ascending order, one
\* call per day; once the loop is through without a failure every day has been
\* published, a day without a usable summary with a placeholder, and
\* state.json is then written.
C8_AllDaysAscending ==
    /\ \A i, j \in DOMAIN PublishedDays : i < j => PublishedDays[i] < PublishedDays[j]
    /\ Range(PublishedDays) \subseteq DOMAIN daily_raw
    /\ \A i \in CallsOf("publish") :
         callLog[i].doc = (IF daily_summaries[callLog[i].arg] = "text" THEN "summary"
                           ELSE IF daily_summaries[callLog[i].arg] = "empty"
                           THEN "no_summary" ELSE "no_data")
    /\ (InRun /\ pc \notin {"props", "summarize", "publish"}
            /\ FailedDaily = {} /\ FailedSummarize = {}
            /\ (\E i \in CallsOf("props") : callLog[i].res = "ok")) =>
         /\ Range(PublishedDays) = DOMAIN daily_raw
         /\ (pc # "commit" /\ DOMAIN daily_raw # {}) => ckptSaved
\* a commit after two days, one without an entry and one with an empty entry
C8_Witness ==
    /\ ckptSaved
    /\ \E d1, d2 \in DOMAIN daily_raw :
         /\ d1 < d2
         /\ daily_summaries[d1] = "missing"
         /\ daily_summaries[d2] = "empty"

\* C9 as stated: a run that ends on a fatal path has written neither state.json
\* nor the weekly report date.
C9_NoCommitOnFatal ==
    (RunEnded /\ exitCode = "fatal") => (~ckptSaved /\ ~weeklySaved)
\* C9 amended: a run that ends on a fatal path has not written the weekly report
\* date, and it has written state.json only if its daily step went through (no
\* summarize() and no daily publish failed): the failure is then one of the
\* weekly step.
C9_NoCommitOnFatalAmended ==
    (RunEnded /\ exitCode = "fatal") =>
        /\ ~weeklySaved /\ weeklyDisk = runStart.weeklyDisk
        /\ ckptSaved =>
             /\ FailedDaily = {} /\ FailedSummarize = {}
             /\ \E i \in CallsOf("weekly_summarize") \cup CallsOf("weekly_publish") :
                  callLog[i].res # "url" /\ callLog[i].res # "text"
        /\ ~ckptSaved => disk = runStart.disk
\* the weekly publish fails after the daily step has committed
C9_Witness ==
    /\ RunEnded /\ exitCode = "fatal"
    /\ ckptSaved
    /\ \E i \in CallsOf("weekly_publish") : callLog[i].res # "url"

\* C10: every summarize() call of a run comes before its first daily publish,
\* and a run in which one of them fails publishes no day and does not write
\* state.json.
C10_SummarizeBeforePublish ==
    /\ \A i \in CallsOf("summarize") : \A j \in CallsOf("publish") : i < j
    /\ FailedSummarize # {} =>
         /\ CallsOf("publish") = {}
         /\ ~ckptSaved /\ disk = runStart.disk
         /\ RunEnded /\ exitCode = "fatal"
\* the second request of a split text fails
C10_Witness ==
    /\ Len(chunks) >= 2
    /\ \E i \in FailedSummarize : callLog[i].arg = 2

\* C11: the retry of an aborted run, made on the same export, state.json, floor
\* and day, derives the day mapping and the RunProgress the aborted run derived.
C11_RetryDeterministic ==
    retry.stage = "retried" =>
        /\ retry.second.daily = retry.first.daily
        /\ retry.second.progress = retry.first.progress

\* a valid message whose timestamp falls, in JST, on a date before the floor
FloorDropped(m) == m.role # "" /\ m.ts # None /\ ts_to_day(m.ts, 0) < floor

\* C12: a message whose timestamp falls, in JST, on a date before the floor is
\* in no day bucket and in no new_seen set of the run's progress, and the
\* max_ts the progress holds for its conversation is the loaded high-water mark
\* or the timestamp of a bucketed message.
C12_FloorExclusion ==
    InRun =>
        \A m \in export :
            FloorDropped(m) =>
                /\ m.mid \notin bucketed
                /\ \A d \in DOMAIN daily_raw : \A i \in DOMAIN daily_raw[d] :
                      daily_raw[d][i].mid # m.mid
                /\ \A c \in Convs : m.mid \notin progress[c].new_seen
                /\ progress[ConvIdOf(m.rec)].new_seen # {} =>
                      progress[ConvIdOf(m.rec)].max_ts \in
                        {runStart.disk.conv_hwm[ConvIdOf(m.rec)]} \cup
                        {x.ts : x \in {y \in export : y.mid \in bucketed}}
\* a run commits a message without a timestamp while a message of the same
\* conversation is dated before the floor
C12_Witness ==
    /\ ckptSaved
    /\ \E m, x \in export :
         /\ FloorDropped(m)
         /\ ConvIdOf(x.rec) = ConvIdOf(m.rec)
         /\ x.ts = None
         /\ x.mid \in progress[ConvIdOf(m.rec)].new_seen

\* the records of the export that resolve to the conversation id of m are one
OwnConversation(m) ==
    \A y \in export : ConvIdOf(y.rec) = ConvIdOf(m.rec) => y.rec = m.rec

\* C13: in a run whose floor is on or before the date of a valid message that no
\* committed run has recorded, the message is bucketed, whatever was committed
\* since the floor dropped it (stated for a conversation held in one record).
C13_FloorDroppedStaysEligible ==
    InRun =>
        \A m \in export :
            (/\ m.role # "" /\ m.ts # None
             /\ ts_to_day(m.ts, 0) >= floor
             /\ OwnConversation(m)
             /\ m.mid \notin DOMAIN commitCount) => m.mid \in bucketed

\* the segmenter was applied to a text longer than the threshold
SegChunked == seg.stage = "done" /\ TextLen(combined_text(seg.daily)) > MAX_CHARS_PER_REQUEST
NonBlank(l) == l.n > 0
RECURSIVE Flatten(_)
Flatten(ss) == IF ss = <<>> THEN <<>> ELSE Head(ss) \o Flatten(Tail(ss))

C15_ChunkWithinThreshold ==
    SegChunked =>
        \A i \in DOMAIN seg.chunks : TextLen(seg.chunks[i]) <= MAX_CHARS_PER_REQUEST
\* a text cut into several requests, one of them a single character short of
\* the threshold
C15_Witness ==
    /\ SegChunked
    /\ Len(seg.chunks) >= 2
    /\ \E i \in DOMAIN seg.chunks : TextLen(seg.chunks[i]) >= MAX_CHARS_PER_REQUEST - 1

\* C17: the non-blank lines of the requests, taken in call order, are the
\* non-blank lines of the combined text in their order, each a whole line.
C17_LineBoundaries ==
    SegChunked =>
        SelectSeq(Flatten(seg.chunks), NonBlank) = SelectSeq(combined_text(seg.daily), NonBlank)
\* a text of several non-blank lines cut into three requests or more
C17_Witness ==
    /\ SegChunked
    /\ Len(seg.chunks) >= 3

\* notion_get_title_date_props returned: the requests of the run are laid out
PropsOk == \E i \in CallsOf("props") : callLog[i].res = "ok"

\* C16: in a run whose combined text is not empty and no longer than the
\* threshold, the one request is the whole combined text, and once the run is
\* past the summary there was exactly one summarize() call, for that request.
C16_SingleCall ==
    LET text == combined_text(daily_raw)
    IN (PropsOk /\ Strip(text) # <<>> /\ TextLen(text) <= MAX_CHARS_PER_REQUEST) =>
          /\ chunks = <<text>>
          /\ pc = "summarize" => CallsOf("summarize") = {}
          /\ pc # "summarize" =>
                /\ Cardinality(CallsOf("summarize")) = 1
                /\ \A i \in CallsOf("summarize") : callLog[i].arg = 1
\* a run that summarised the text of one day in one call and published it
C16_Witness ==
    /\ PropsOk
    /\ TextLen(combined_text(daily_raw)) <= MAX_CHARS_PER_REQUEST
    /\ Cardinality(CallsOf("summarize")) = 1
    /\ successful_days # <<>>

\* C18: every day section an answer to a chunk holds is in the parsed mapping
\* under its day, with the text returned under its heading and nothing else.
C18_SectionsExtractable ==
    par.stage = "done" =>
        \A i \in DOMAIN par.answers : \A j \in DOMAIN par.answers[i] :
            LET sec == par.answers[i][j]
            IN /\ sec.day \in DOMAIN par.summaries
               /\ par.summaries[sec.day] = <<BodyLine(sec.tag)>>

\* the external calls that end a run without new messages when they fail
FailedOutsideDaily ==
    {i \in CallsOf("props") \cup CallsOf("weekly_summarize") \cup CallsOf("weekly_publish") :
        callLog[i].res \in {"raise", "none"} /\ i = Len(callLog)}

\* C19: in a run whose combined text is empty there is no summarize() call, the
\* day-to-summary mapping is empty, no daily page is published, state.json is
\* not written, and the run is fatal only when notion_get_title_date_props or a
\* call of the weekly report fails.
C19_EmptyInput ==
    (InRun /\ Strip(combined_text(daily_raw)) = <<>>) =>
        /\ CallsOf("summarize") = {}
        /\ DOMAIN daily_summaries = {}
        /\ CallsOf("publish") = {}
        /\ ~ckptSaved /\ disk = runStart.disk
        /\ exitCode = "fatal" => FailedOutsideDaily # {}
\* a run over an export whose messages were all committed before ends well
C19_Witness ==
    /\ RunEnded /\ exitCode = "ok"
    /\ PropsOk
    /\ Strip(combined_text(daily_raw)) = <<>>
    /\ \E m \in export : m.mid \in DOMAIN commitCount

\* C20: a run that finds no eligible message publishes no day and does not
\* write state.json, and when it ends it has asked for the weekly report if one
\* was due, filed it if it got one and a filing date, and saved the date filed.
C20_WeeklyStillEvaluated ==
    (InRun /\ bucketed = {}) =>
        /\ CallsOf("publish") = {}
        /\ ~ckptSaved
        /\ (RunEnded /\ PropsOk) =>
              /\ should_create(runStart.weeklyDisk) <=> CallsOf("weekly_summarize") # {}
              /\ (/\ \E i \in CallsOf("weekly_summarize") : callLog[i].res = "text"
                  /\ RegistrationDate(runStart.weeklyDisk) # None)
                 <=> CallsOf("weekly_publish") # {}
              /\ \A i \in CallsOf("weekly_publish") :
                    callLog[i].res = "url" =>
                        weeklyDisk = RegistrationDate(runStart.weeklyDisk)
\* a run without eligible messages files the weekly report
C20_Witness ==
    /\ RunEnded
    /\ bucketed = {}
    /\ \E i \in CallsOf("weekly_publish") : callLog[i].res = "url"

IsNextSaturday(s, last_date) ==
    /\ s % 7 = 5
    /\ s > last_date
    /\ s <= last_date + 7
    /\ last_date % 7 = 2 => s = last_date + 3
    /\ last_date % 7 = 5 => s = last_date + 7

\* C21: the next Saturday computed from a last registration date is a Saturday,
\* lies after that date and at most seven days after it; from a Wednesday it is
\* three days later, from a Saturday seven.  This holds of the date on file and
\* of the Saturday a run has derived its filing date from.
C21_NextSaturday ==
    /\ weeklyDisk # None => IsNextSaturday(next_saturday(weeklyDisk), weeklyDisk)
    /\ (InRun /\ runStart.weeklyDisk # None /\ registration_date # None) =>
          IsNextSaturday(registration_date - 1, runStart.weeklyDisk)
\* a run files a report a week after a registration made on a Saturday
C21_Witness ==
    /\ pc = "weekly_publish"
    /\ runStart.weeklyDisk # None
    /\ runStart.weeklyDisk % 7 = 5
    /\ registration_date = runStart.weeklyDisk + 8

\* the first Saturday after a date
SaturdayAfter(d) == CHOOSE s \in (d + 1)..(d + 7) : s % 7 = 5
\* the weekly step of the run of main() has been gone through
MainWeeklyDone == RunEnded /\ PropsOk /\ FailedDaily = {} /\ FailedSummarize = {}
\* the weekly step of the run of the script has been gone through
DsCallsOf(kind) == {i \in DOMAIN ds.calls : ds.calls[i].kind = kind}
DsWeeklyDone ==
    /\ ds.pc = "ended"
    /\ \E i \in DsCallsOf("publish") : ds.calls[i].res # "raise"

\* C22: with a last registration date on file, a run that comes to its weekly
\* step asks for the weekly report if and only if today is on or after the first
\* Saturday after that date; when today is before it, the run makes no weekly
\* summarizer call and no weekly publish call and leaves the date on file as it is.
C22_DueIffOnOrAfterSaturday ==
    /\ (MainWeeklyDone /\ runStart.weeklyDisk # None) =>
          /\ today >= SaturdayAfter(runStart.weeklyDisk)
                <=> CallsOf("weekly_summarize") # {}
          /\ today < SaturdayAfter(runStart.weeklyDisk) =>
                /\ CallsOf("weekly_publish") = {}
                /\ weeklyDisk = runStart.weeklyDisk
    /\ (DsWeeklyDone /\ ds.start # None) =>
          /\ today >= SaturdayAfter(ds.start) <=> DsCallsOf("weekly_summarize") # {}
          /\ today < SaturdayAfter(ds.start) =>
                /\ DsCallsOf("weekly_publish") = {}
                /\ weeklyDisk = ds.start
\* a run made on the very Saturday after the last registration asks for the report
C22_Witness ==
    /\ MainWeeklyDone
    /\ runStart.weeklyDisk # None
    /\ today = SaturdayAfter(runStart.weeklyDisk)
    /\ CallsOf("weekly_summarize") # {}

\* C23: with a last registration date on file, every weekly report that was
\* published was filed under the Sunday after the first Saturday after that
\* date, and that Sunday is the date on file when the run has ended, whatever
\* today's date is, in a run of main() and in a run of the script.
C23_FilingDateCommitted ==
    /\ (InRun /\ runStart.weeklyDisk # None) =>
          \A i \in CallsOf("weekly_publish") :
              /\ callLog[i].arg = SaturdayAfter(runStart.weeklyDisk) + 1
              /\ (RunEnded /\ callLog[i].res = "url") =>
                    weeklyDisk = SaturdayAfter(runStart.weeklyDisk) + 1
    /\ (ds.pc # "idle" /\ ds.start # None) =>
          \A i \in DsCallsOf("weekly_publish") :
              /\ ds.calls[i].arg = SaturdayAfter(ds.start) + 1
              /\ (ds.pc = "ended" /\ ds.calls[i].res = "url") =>
                    weeklyDisk = SaturdayAfter(ds.start) + 1

\* C25: a run whose weekly publish failed (the call raised, or returned no page
\* with a url) ends with the last registration date it started with, in a run
\* of main() and in a run of the script.
C25_FailedPublishKeepsDate ==
    /\ (RunEnded /\ \E i \in CallsOf("weekly_publish") : callLog[i].res # "url") =>
          weeklyDisk = runStart.weeklyDisk
    /\ (ds.pc = "ended" /\ \E i \in DsCallsOf("weekly_publish") : ds.calls[i].res # "url") =>
          weeklyDisk = ds.start

\* the Friday of the week (Monday to Sunday) of a date
FridayOfWeek(d) == CHOOSE f \in (d - 6)..(d + 6) : f % 7 = 4 /\ f - 4 <= d /\ d <= f + 2

C26_CheckpointAtomic ==
    fs.file = "state" =>
        /\ fs.path \in {fs.old, Content(fs.new, DocPieces)}
        /\ fs.result # "unset" =>
              /\ fs.read \in {fs.old, Content(fs.new, DocPieces)}
              /\ fs.result # "raise"
\* save_state died with the new document half written, and a reader got the prior one
C26_Witness ==
    /\ fs.file = "state"
    /\ fs.stage = "crashed"
    /\ fs.tmp # Absent /\ ~Complete(fs.tmp)
    /\ fs.old # Absent
    /\ fs.result = "document"
    /\ fs.read = fs.old

\* C27: while save_last_weekly_report_date runs, and after it has died at any
\* point, a reader of weekly_report_config.json gets the whole record that was
\* there before or the whole new one, never an empty one or one cut short.
C27_ScheduleStateAtomic ==
    (fs.file = "weekly" /\ fs.result # "unset") =>
        fs.read \in {fs.old, Content(fs.new, DocPieces)}

\* the ids under which state.json holds a message as seen
SeenIds(st, m) == Range(st.seen[ConvIdOf(m.rec)])

\* C28: a message without an id gets the same synthesized id in every run: an id
\* state.json holds as seen is the id the running process gives to a message of
\* the export, and a message without a timestamp that was committed as seen
\* in an earlier run is not bucketed again.
C28_SynthesizedIdStable ==
    /\ \A c \in Convs : \A id \in Range(disk.seen[c]) :
          \E m \in export : MidOf(m, hashSeed) = id
    /\ InRun =>
          \A m \in export :
              (/\ m.legacy /\ m.ts = None
               /\ \E sd \in Seeds : LegacyId(m.mid, sd) \in SeenIds(runStart.disk, m))
              => MidOf(m, hashSeed) \notin bucketed

\* "\n- " + "\n- ".join(lines), written out
RECURSIVE DashLines(_)
DashLines(lines) ==
    IF lines = <<>> THEN <<>>
    ELSE <<Line(Head(lines).n + 2, Head(lines).mid)>> \o DashLines(Tail(lines))
JoinedText(lines) == <<Blank>> \o DashLines(lines)
\* len("\n…（長文のため途中まで）")
TruncLen == 13

\* C29: the text of a day whose joined lines are longer than the cap is the first
\* cap characters of the joined lines followed by the truncation suffix, cap
\* characters and the length of the suffix in all; the text of a day whose
\* joined lines are not longer than the cap is the joined lines.
C29_BucketerCap ==
    capp.stage = "done" =>
        LET joined == JoinedText(capp.lines)
            out == capp.out
        IN IF TextLen(joined) > max_chars
           THEN /\ TextLen(out) = max_chars + TruncLen
                /\ Prefix(out, max_chars) = Prefix(joined, max_chars)
                /\ out[Len(out)] = Line(TruncLen - 1, 0)
           ELSE out = joined
\* the joined lines of a day are one character longer than the cap
C29_Witness ==
    /\ capp.stage = "done"
    /\ TextLen(JoinedText(capp.lines)) = max_chars + 1
    /\ TextLen(capp.out) = max_chars + TruncLen

\* the messages a run that loaded st is to bucket: valid, with an id not in the
\* seen list of their conversation, with no timestamp or one above its
\* high-water mark, and not dated before the floor
ToBucket(st) ==
    {m \in export :
        /\ m.role # ""
        /\ m.mid \notin Range(st.seen[ConvIdOf(m.rec)])
        /\ (m.ts = None \/ m.ts > st.conv_hwm[ConvIdOf(m.rec)])
        /\ (m.ts # None => (m.ts + 3) \div 8 >= floor)}
DateOf(m) == IF m.ts = None THEN today ELSE (m.ts + 3) \div 8
\* messages in the order of the export: by record, then by position
RECURSIVE InExportOrder(_)
InExportOrder(S) ==
    IF S = {} THEN <<>>
    ELSE LET m == CHOOSE x \in S : \A y \in S : x.rec * 1000 + x.mid <= y.rec * 1000 + y.mid
         IN <<m>> \o InExportOrder(S \ {m})

FirstOf(text, b) == text[3 * b - 2]
BodyOf(text, b) == text[3 * b - 1]
BlocksOf(text) == 1..((Len(text) + 1) \div 3)
\* the keys the sections of an answer give: a section starts at the top of the
\* answer and before every heading "## dddd-dd-dd"
KeysOf(text) ==
    {FirstOf(text, b).day : b \in {x \in BlocksOf(text) : FirstOf(text, x).kind = "date"}}
    \cup (IF FirstOf(text, 1).kind = "bare" THEN {FirstOf(text, 1).day} ELSE {})
    \cup (IF FirstOf(text, 1).kind = "date_short"
          THEN {Unpadded(FirstOf(text, 1).day)} ELSE {})

\* C31 as stated: the sections without a date, or with a date that is no calendar
\* date, are left out, the others are kept, and every key of the mapping is a
\* calendar date written YYYY-MM-DD.
C31_KeysAreDates ==
    par.stage = "done" =>
        /\ \A b \in BlocksOf(par.text) :
              FirstOf(par.text, b).kind = "date" =>
                  FirstOf(par.text, b).day \in DOMAIN par.summaries
        /\ DOMAIN par.summaries \subseteq HeadDays

\* C31, amended: the sections without a date, with a date that is no calendar
\* date or with text after the date are left out and the others are kept; every
\* key of the mapping is a calendar date written YYYY-MM-DD, or, for a section
\* at the top of the answer, one written with a month or a day of one digit.
C31_KeysAreDatesAmended ==
    par.stage = "done" =>
        /\ DOMAIN par.summaries = KeysOf(par.text)
        /\ \A k \in DOMAIN par.summaries :
              \/ k \in HeadDays
              \/ /\ FirstOf(par.text, 1).kind = "date_short"
                 /\ k = Unpadded(FirstOf(par.text, 1).day)
\* the first section has a date that is no calendar date, the second is kept
C31_Witness ==
    /\ par.stage = "done"
    /\ Len(par.text) > 3
    /\ FirstOf(par.text, 1).kind = "date_bad"
    /\ FirstOf(par.text, 2).kind = "date"
    /\ DOMAIN par.summaries = {FirstOf(par.text, 2).day}

\* what a reader sees of a sequence of spans, and of a list of them
PlainText(rich_text) == Flatten([i \in DOMAIN rich_text |-> rich_text[i].content])
Squeeze(s) == SelectSeq(s, LAMBDA c : ~IsSpace(c))
IsHeadingBlock(b) == b.type = "heading"
IsParagraphBlock(b) == b.type = "paragraph"
RdLinesOf(text) == SplitLines(text, <<>>)
EmptyHeading(line) == HeadLevel(line) > 0 /\ StripStr(Drop(line, HeadLevel(line))) = <<>>
TextLine(line) == HeadLevel(line) = 0
LevelsOf(s) == [i \in DOMAIN s |-> s[i].level]
HeadLevelsOf(s) == [i \in DOMAIN s |-> HeadLevel(s[i])]
ParagraphsText(blocks) ==
    LET ps == SelectSeq(blocks, IsParagraphBlock)
    IN Squeeze(Flatten([i \in DOMAIN ps |-> PlainText(ps[i].rich_text)]))
LinesText(lines) ==
    LET ts == SelectSeq(lines, TextLine)
    IN Squeeze(Flatten([i \in DOMAIN ts |-> PlainText(parse_rich_text(ts[i]))]))

\* C32: a heading line with no text gives no Heading block (the Heading blocks
\* are, in order, those of the heading lines that have a text), and the text
\* lines before and after it are in the Paragraph blocks in their order.
C32_EmptyHeadingDropped ==
    rd.stage = "done" =>
        LET lines == RdLinesOf(rd.text)
            named == SelectSeq(lines, LAMBDA l : HeadLevel(l) > 0 /\ ~EmptyHeading(l))
        IN /\ LevelsOf(SelectSeq(rd.blocks, IsHeadingBlock)) = HeadLevelsOf(named)
           /\ ParagraphsText(rd.blocks) = LinesText(lines)
\* a text line, a heading with no text, a text line: two paragraphs, no heading
C32_Witness ==
    /\ rd.stage = "done"
    /\ LET lines == RdLinesOf(rd.text)
       IN /\ Len(lines) = 3
          /\ lines[1] = <<"a">>
          /\ EmptyHeading(lines[2])
          /\ lines[3] = <<" ", "b">>
    /\ Len(rd.blocks) = 2
    /\ \A i \in DOMAIN rd.blocks : IsParagraphBlock(rd.blocks[i])
    /\ PlainText(rd.blocks[1].rich_text) = <<"a">>
    /\ PlainText(rd.blocks[2].rich_text) = <<"b">>

\* C33 as stated: a bold span is made only for a text that is not empty, so no
\* span of a block is bold with an empty content.
C33_BoldNeverEmpty ==
    rd.stage = "done" =>
        \A i \in DOMAIN rd.blocks :
            \A k \in DOMAIN rd.blocks[i].rich_text :
                rd.blocks[i].rich_text[k].bold => rd.blocks[i].rich_text[k].content # <<>>

\* the ids a commit has added to the seen list of a conversation
AddedIds(c) == Range(disk.seen[c]) \ Range(runStart.disk.seen[c])
PublishedOk(day) ==
    \E i \in CallsOf("publish") : callLog[i].arg = day /\ callLog[i].res = "url"

\* C34: every id a commit adds to a seen list is the id of a message of that
\* conversation whose day was published with success in the same run, and the
\* commit leaves no conversation with a lower high-water mark than it had.
C34_CommittedImpliesPublished ==
    ckptSaved =>
        \A c \in Convs :
            /\ \A mid \in AddedIds(c) :
                  \E m \in export :
                      /\ m.mid = mid
                      /\ ConvIdOf(m.rec) = c
                      /\ PublishedOk(ts_to_day(m.ts, floor))
            /\ disk.conv_hwm[c] >= runStart.disk.conv_hwm[c]
\* a commit that adds ids to one conversation while another one, marked by an
\* earlier commit, has nothing new
C34_Witness ==
    /\ ckptSaved
    /\ \E c1, c2 \in Convs :
          /\ c1 # c2
          /\ AddedIds(c1) # {}
          /\ AddedIds(c2) = {}
          /\ runStart.disk.conv_hwm[c2] > -1

\* the states of the scheduler
AwaitingNextWindow == weeklyDisk # None /\ ~should_create(weeklyDisk)
\* no report date yet and today is a Friday: every run returns at line 1140
DecliningFriday == weeklyDisk = None /\ today % 7 = 4
DateIncreases == weeklyDisk' # weeklyDisk => (weeklyDisk = None \/ weeklyDisk' > weeklyDisk)

C36_WindowPrecedesFiling ==
    \A i \in CallsOf("weekly_publish") :
        callLog[i].res = "url" =>
            \E j \in CallsOf("weekly_summarize") :
                /\ j < i
                /\ callLog[j].res = "text"
                /\ callLog[j].arg = callLog[i].arg - 2

\* the messages bucketed in this run from the records keyed c
BucketedOf(c) == {m \in export : m.mid \in bucketed /\ ConvIdOf(m.rec) = c}
Stamps(ms) == {m.ts : m \in {x \in ms : x.ts # None}}

\* C37 as stated: the RunProgress of a conversation id holds the ids of all the
\* messages bucketed from all the records with that id and a max_ts not below
\* any of their timestamps, and once it is committed none of them is eligible.
C37_SharedIdProgress ==
    InRun =>
        \A c \in Convs :
            /\ progress[c].new_seen = {m.mid : m \in BucketedOf(c)}
            /\ \A t \in Stamps(BucketedOf(c)) : progress[c].max_ts >= t
            /\ ckptSaved =>
                 \A m \in BucketedOf(c) :
                    ~Eligible(m, disk.conv_hwm[c], Range(disk.seen[c]))

\* the whole line of message mid is in the text of a day, which is the text
\* the requests to the summariser are made of
WholeLineSent(mid) ==
    \E d \in DOMAIN daily_raw :
        \E i \in DOMAIN daily_raw[d] : daily_raw[d][i].mid = mid /\ daily_raw[d][i].whole

\* C38 as stated: every message recorded in RunProgress has its whole line in
\* the text made for the summariser in that run.
C38_SeenOnlyIfSent ==
    InRun => \A c \in Convs : \A mid \in progress[c].new_seen : WholeLineSent(mid)

\* the ids of the lines of a day
IdsOfDay(acc, d) == {acc.buckets[d][i].mid : i \in DOMAIN acc.buckets[d]}

====
